---- MODULE Spec2Model ----
(***************************************************************************)
(* Model of the ai-assistant repository: the WordPress ingestion pipeline  *)
(* of WordPressService (services/searchConsoleService.ts), the statistics  *)
(* and the completion calls of analyzeKeywordUsage and analyzePostSEO      *)
(* (services/blogAIService.ts), the response race of                       *)
(* ChatProvider.sendMessage and the tokens of GoogleAuthService.           *)
(*                                                                         *)
(* Strings are sequences of one-character strings, so that the string      *)
(* operations of the code (includes, split, replace) are computed.         *)
(***************************************************************************)
EXTENDS Integers, Sequences, FiniteSets, TLC

VARIABLES
  baseUrl,        \* WordPressService.baseUrl
  treatments,     \* WordPressService.treatments
  srcCount,       \* number of posts every origin site holds
  allPosts,       \* fetchAllPosts: accumulator
  page,           \* fetchAllPosts: page
  hasMorePages,   \* fetchAllPosts: hasMorePages
  retryCount,     \* fetchAllPosts: retryCount
  success,        \* fetchAllPosts: success
  fpc,            \* fetchAllPosts: position (idle, fetching, delay, backoff, done, raised)
  lastStatus,     \* status of the latest answer to a page request (0: none yet, -1: rejected)
  reqLog,         \* page requests issued so far, in order: [url, page, result]
  cpc,            \* fetchCategories: position (idle, fetching, done)
  catUrl,         \* fetchCategories: base URL of its request
  categories,     \* fetchCategories: result
  gpc,            \* getBlogData: position (idle, waiting, done)
  blogData,       \* getBlogData: result
  startUrl,       \* baseUrl when the run was started
  startTreatments,\* treatments when the run was started
  otherCalls,     \* calls another task has made on the shared service during the run
  argPosts,       \* analyzeTreatmentMatches: the posts argument of the latest direct call
  argTreatments,  \* analyzeTreatmentMatches: this.treatments at the latest direct call
  matches,        \* analyzeTreatmentMatches: the result of the latest direct call
  gapTreatments,  \* analyzeKeywordUsage: the treatments argument of the latest call
  gapMatches,     \* analyzeKeywordUsage: blogData.treatmentMatches of the latest call
  gapPosts,       \* analyzeKeywordUsage: blogData.posts of the latest call
  gapKeywords,    \* analyzeKeywordUsage: blogData.keywords of the latest call
  keywordDiversityIndex, \* analyzeKeywordUsage: keywordDiversityIndex
  keywordFreq,    \* analyzeKeywordUsage: keywordFreq
  apc,            \* analyzeKeywordUsage: position (idle, calling, delayRetry, delayBreak, done)
  aiModel,        \* analyzeKeywordUsage: index in models of the model of the loop
  aiRetryCount,   \* analyzeKeywordUsage: retryCount
  aiAttempts,     \* completion calls made for each model by the latest invocation
  aiOutcome,      \* how the latest completion call ended (pending while in flight)
  aiEnding,       \* how the latest invocation ended (none, success, fallback)
  analysis,       \* analyzeKeywordUsage: the KeywordAnalysisData returned (<< >>: none yet)
  treatmentGaps,  \* analyzeKeywordUsage: treatmentGaps
  contentGapRate, \* analyzeKeywordUsage: contentGapRate
  stripArg,       \* stripHtmlTags: the html argument of the latest call by a caller
  stripResults,   \* stripHtmlTags: its result, and the result of passing that result again
  extractArg,     \* extractKeywords: the posts argument of the latest direct call
  extractedKeywords, \* extractKeywords: the result of the latest direct call
  seoPc,          \* analyzePostSEO: position (idle, calling, done)
  seoModel,       \* analyzePostSEO: index in models of the model of the loop
  seoOutcome,     \* analyzePostSEO: how the latest completion call ended
  seoResult,      \* analyzePostSEO: the value returned (<< >>: none yet)
  chatPc,         \* sendMessage: position (idle, racing, title, done)
  streamPc,       \* sendMessage: the stream consumer (none, running, ended, failed)
  timerPc,        \* sendMessage: the timeout timer (none, armed, fired)
  raceWinner,     \* sendMessage: what settled Promise.race (none, stream, streamError, timeout)
  fullResponse,   \* sendMessage: fullResponse
  hasReceivedChunk, \* sendMessage: hasReceivedChunk
  chunkCount,     \* sendMessage: chunkCount
  isSafari,       \* sendMessage: isSafari
  needsTitle,     \* sendMessage: needsTitle
  aiText,         \* conversations: the text of the message aiMessageId
  convTitle,      \* conversations: the title of the conversation
  isLoading,      \* ChatProvider: isLoading
  localStorage,   \* the items googleAuthTokens and searchConsoleToken
  now,            \* Date.now(), in minutes
  epc,            \* ensureValidToken: position of each caller
  eTokens,        \* ensureValidToken: tokens (line 151) of each caller
  eRequests,      \* refresh requests sent by the latest invocation of each caller
  eResult,        \* ensureValidToken: what the latest invocation returned or raised
  config,         \* the environment, and what became of each component that reads it
  dashboard,      \* DashboardView.fetchData: the posts, the clock and the statistics
  blogStream,     \* generateBlogResponseStream: position, model and yielded chunks
  seoScore,       \* performAdvancedSEOAnalysis: the sub-scores and the result
  calendar,       \* BlogScheduleView: the keyword records and the sidebar lists
  filterCall      \* analyzeTreatmentMatches: the latest call of the filter predicate

vars == <<baseUrl, treatments, srcCount, allPosts, page, hasMorePages,
          retryCount, success, fpc, lastStatus, reqLog, cpc, catUrl,
          categories, gpc, blogData, startUrl, startTreatments, otherCalls,
          argPosts, argTreatments, matches, gapTreatments, gapMatches,
          gapPosts, gapKeywords, keywordDiversityIndex, keywordFreq, apc,
          aiModel, aiRetryCount, aiAttempts, aiOutcome, aiEnding, analysis,
          treatmentGaps, contentGapRate, stripArg, stripResults,
          extractArg, extractedKeywords, seoPc, seoModel, seoOutcome,
          seoResult, chatPc, streamPc, timerPc, raceWinner, fullResponse,
          hasReceivedChunk, chunkCount, isSafari, needsTitle, aiText,
          convTitle, isLoading, localStorage, now, epc, eTokens, eRequests,
          eResult, config, dashboard, blogStream, seoScore, calendar,
          filterCall>>

svcVars == <<baseUrl, treatments>>

fetchVars == <<allPosts, page, hasMorePages, retryCount, success, fpc,
               lastStatus, reqLog>>

blogVars == <<cpc, catUrl, categories, gpc, blogData, startUrl, startTreatments>>

matchVars == <<argPosts, argTreatments, matches>>

statVars == <<gapTreatments, gapMatches, gapPosts, gapKeywords,
              keywordDiversityIndex, keywordFreq, treatmentGaps, contentGapRate>>

aiVars == <<apc, aiModel, aiRetryCount, aiAttempts, aiOutcome, aiEnding, analysis>>

gapVars == <<statVars, aiVars>>

stripVars == <<stripArg, stripResults>>

extractVars == <<extractArg, extractedKeywords>>

seoVars == <<seoPc, seoModel, seoOutcome, seoResult>>

chatVars == <<chatPc, streamPc, timerPc, raceWinner, fullResponse,
              hasReceivedChunk, chunkCount, isSafari, needsTitle, aiText,
              convTitle, isLoading>>

authVars == <<localStorage, now, epc, eTokens, eRequests, eResult>>

lateVars == <<config, dashboard, blogStream, seoScore, calendar, filterCall>>

restVars == <<seoVars, chatVars, authVars, lateVars>>

\* the variables of searchConsoleService.ts, blogAIService.ts' analyses,
\* ChatProvider and GoogleAuthService
coreVars == <<svcVars, srcCount, fetchVars, blogVars, otherCalls, matchVars,
              gapVars, stripVars, extractVars, seoVars, chatVars, authVars>>

\* the variables of the services of searchConsoleService.ts and of
\* analyzeKeywordUsage
ingestVars == <<svcVars, srcCount, fetchVars, blogVars, otherCalls, matchVars,
                gapVars, stripVars, extractVars>>

clientVars == <<stripVars, extractVars, restVars>>

----------------------------------------------------------------------------
(* Bounds *)

MaxItems == 32          \* largest origin: two full pages and a short third
MaxOtherCalls == 2      \* calls of another task on the shared service during one run
MaxPosts == 3           \* longest posts argument of a direct analyzeTreatmentMatches call
MaxDivPosts == 12        \* most posts of a blogData argument
MaxDivKeywords == 14     \* most keywords of a blogData argument
MaxHtmlLen == 5          \* longest html argument of stripHtmlTags
MaxEntityLen == 6        \* longest html argument made of entity characters only
MaxGapTreatments == 40  \* longest treatments argument of analyzeKeywordUsage

----------------------------------------------------------------------------
(* Strings *)

EmptyStr == << >>

LowerLetters == <<"a", "b", "c", "d", "e", "f", "g", "h", "i", "j", "k", "l", "m", "n", "o", "p", "q", "r", "s", "t", "u", "v", "w", "x", "y", "z">>
UpperLetters == <<"A", "B", "C", "D", "E", "F", "G", "H", "I", "J", "K", "L", "M", "N", "O", "P", "Q", "R", "S", "T", "U", "V", "W", "X", "Y", "Z">>
Digits       == {"0", "1", "2", "3", "4", "5", "6", "7", "8", "9"}
Whitespace   == {" ", "\n", "\t"}

IsLower(c)  == \E i \in 1..26 : LowerLetters[i] = c
IsUpper(c)  == \E i \in 1..26 : UpperLetters[i] = c
IsLetter(c) == IsLower(c) \/ IsUpper(c)
IsDigit(c)  == c \in Digits
IsSpace(c)  == c \in Whitespace

LowerChar(c) ==
  IF IsUpper(c) THEN LowerLetters[CHOOSE i \in 1..26 : UpperLetters[i] = c] ELSE c

\* String.prototype.toLowerCase
ToLowerCase(s) == [i \in 1..Len(s) |-> LowerChar(s[i])]

\* sub occurs in s at position i
OccursAt(s, sub, i) ==
  /\ i >= 1
  /\ i + Len(sub) - 1 <= Len(s)
  /\ \A j \in 1..Len(sub) : s[i + j - 1] = sub[j]

\* String.prototype.includes
Includes(s, sub) == \E i \in 1..(Len(s) - Len(sub) + 1) : OccursAt(s, sub, i)

\* String.prototype.replace with a string pattern: the first occurrence only
ReplaceFirst(s, pat, rep) ==
  IF Includes(s, pat)
    THEN LET i == CHOOSE k \in 1..Len(s) :
                    /\ OccursAt(s, pat, k)
                    /\ \A m \in 1..(k - 1) : ~OccursAt(s, pat, m)
         IN  SubSeq(s, 1, i - 1) \o rep \o SubSeq(s, i + Len(pat), Len(s))
    ELSE s

\* String.prototype.replace with a literal /pat/g: every occurrence, left to right
RECURSIVE ReplaceAll(_, _, _)
ReplaceAll(s, pat, rep) ==
  IF Len(s) = 0 THEN s
  ELSE IF OccursAt(s, pat, 1)
    THEN rep \o ReplaceAll(SubSeq(s, Len(pat) + 1, Len(s)), pat, rep)
    ELSE <<s[1]>> \o ReplaceAll(Tail(s), pat, rep)

\* String.prototype.split(' ')
RECURSIVE Split(_)
Split(s) ==
  IF \E i \in 1..Len(s) : s[i] = " "
    THEN LET i == CHOOSE k \in 1..Len(s) :
                    s[k] = " " /\ \A m \in 1..(k - 1) : s[m] # " "
         IN  <<SubSeq(s, 1, i - 1)>> \o Split(SubSeq(s, i + 1, Len(s)))
    ELSE <<s>>

\* Array.prototype.join(' ')
RECURSIVE Join(_)
Join(ws) ==
  IF Len(ws) = 0 THEN EmptyStr
  ELSE IF Len(ws) = 1 THEN ws[1]
  ELSE ws[1] \o <<" ">> \o Join(Tail(ws))

\* String.prototype.replace(/\/$/, ''): drops one trailing slash
StripTrailingSlash(u) ==
  IF Len(u) > 0 /\ u[Len(u)] = "/" THEN SubSeq(u, 1, Len(u) - 1) ELSE u

UrlA      == <<"a">>
UrlASlash == <<"a", "/">>
UrlB      == <<"b">>
Urls      == {UrlA, UrlASlash, UrlB}

----------------------------------------------------------------------------
(* The origin: a paginated source of srcCount posts per site *)

PerPage    == 15
maxRetries == 3

Min(a, b) == IF a < b THEN a ELSE b
Max(a, b) == IF a > b THEN a ELSE b

\* the posts the origin at url serves as page p when it holds n posts
PageItems(url, n, p) ==
  LET cnt == Max(0, Min(PerPage, n - (p - 1) * PerPage))
  IN  [i \in 1..cnt |-> [site |-> url, id |-> (p - 1) * PerPage + i]]

Statuses == {200, 400, 404, 429, 500, 503}

\* Response.ok
ResponseOk(status) == status >= 200 /\ status <= 299

----------------------------------------------------------------------------
(* Configured treatments (services/treatments.json entries) *)

T_Hair   == <<"H", "a", "i", "r", " ", "T", "r", "a", "n", "s", "p", "l", "a", "n", "t", " ", "i", "n", " ", "T", "u", "r", "k", "e", "y">>
T_Rhino  == <<"R", "h", "i", "n", "o", "p", "l", "a", "s", "t", "y", " ", "i", "n", " ", "T", "u", "r", "k", "e", "y">>
T_Weight == <<"W", "e", "i", "g", "h", "t", " ", "L", "o", "s", "s", " ", "S", "u", "r", "g", "e", "r", "y", " ", "i", "n", " ", "T", "u", "r", "k", "e", "y">>

TreatmentLists == { <<T_Hair, T_Rhino>>, <<T_Rhino, T_Weight, T_Hair>> }

\* every treatment of some list
ConfiguredTreatments == UNION {{ts[i] : i \in DOMAIN ts} : ts \in TreatmentLists}

----------------------------------------------------------------------------
(* WordPressService: constructor, setBaseUrl, setTreatments *)

Init ==
  /\ baseUrl = EmptyStr
  /\ treatments = << >>
  /\ srcCount \in 0..MaxItems
  /\ allPosts = << >>
  /\ page = 1
  /\ hasMorePages = TRUE
  /\ retryCount = 0
  /\ success = FALSE
  /\ fpc = "idle"
  /\ lastStatus = 0
  /\ reqLog = << >>
  /\ cpc = "idle"
  /\ catUrl = EmptyStr
  /\ categories = << >>
  /\ gpc = "idle"
  /\ blogData = [posts |-> << >>, categories |-> << >>, keywords |-> << >>,
                 treatmentMatches |-> << >>]
  /\ startUrl = EmptyStr
  /\ startTreatments = << >>
  /\ otherCalls = 0
  /\ argPosts = << >>
  /\ argTreatments = << >>
  /\ matches = << >>
  /\ gapTreatments = << >>
  /\ gapMatches = << >>
  /\ gapPosts = << >>
  /\ gapKeywords = << >>
  /\ keywordDiversityIndex = 0
  /\ keywordFreq = << >>
  /\ apc = "idle"
  /\ aiModel = 1
  /\ aiRetryCount = 0
  /\ aiAttempts = <<0, 0>>
  /\ aiOutcome = "none"
  /\ aiEnding = "none"
  /\ analysis = << >>
  /\ treatmentGaps = << >>
  /\ contentGapRate = 0
  /\ stripArg = EmptyStr
  /\ stripResults = << >>
  /\ extractArg = << >>
  /\ extractedKeywords = << >>
  /\ seoPc = "idle"
  /\ seoModel = 1
  /\ seoOutcome = "none"
  /\ seoResult = << >>
  /\ chatPc = "idle"
  /\ streamPc = "none"
  /\ timerPc = "none"
  /\ raceWinner = "none"
  /\ fullResponse = EmptyStr
  /\ hasReceivedChunk = FALSE
  /\ chunkCount = 0
  /\ isSafari = FALSE
  /\ needsTitle = FALSE
  /\ aiText = EmptyStr
  /\ convTitle = "New Conversation"
  /\ isLoading = FALSE
  /\ localStorage = [googleAuthTokens |-> << >>, searchConsoleToken |-> << >>]
  /\ now = 0
  /\ epc = [c \in {"A", "B"} |-> "idle"]
  /\ eTokens = [c \in {"A", "B"} |-> << >>]
  /\ eRequests = [c \in {"A", "B"} |-> 0]
  /\ eResult = [c \in {"A", "B"} |-> "none"]
  /\ config = [env |-> {},
               blogAIService |-> "unloaded",
               serpApiService |-> "none",
               googleAuthService |-> "none",
               pageSpeedKey |-> "none"]
  /\ dashboard = [now |-> [y |-> 0, m |-> 0, d |-> 1, h |-> 0], postDates |-> << >>,
                  recentPosts |-> 0, olderPosts |-> 0, growthRate |-> 0,
                  monthlyPosts |-> << >>, computed |-> "nothing"]
  /\ blogStream = [pc |-> "idle", model |-> 1, yielded |-> 0,
                   fullResponse |-> << >>, message |-> "none"]
  /\ seoScore = [coreWebVitals |-> 0, semantic |-> 0, mobile |-> 0, schema |-> 0,
                 overallScore |-> 0, outcome |-> "none"]
  /\ calendar = [rows |-> {}, inserted |-> 0, scheduleItems |-> << >>,
                 keywords |-> << >>, keywordRecordIds |-> << >>]
  /\ filterCall = [treatment |-> << >>, title |-> << >>, content |-> << >>,
                   counted |-> FALSE]

\* setBaseUrl, lines 340-342
SetBaseUrl(url) ==
  /\ baseUrl' = StripTrailingSlash(url)
  /\ UNCHANGED <<treatments, srcCount, fetchVars, blogVars, matchVars, gapVars, clientVars>>

\* setTreatments, lines 347-349
SetTreatments(ts) ==
  /\ treatments' = ts
  /\ UNCHANGED <<baseUrl, srcCount, fetchVars, blogVars, matchVars, gapVars, clientVars>>

----------------------------------------------------------------------------
(* WordPressService.fetchAllPosts *)

\* the request of line 409: the URL is built from this.baseUrl when issued
IssueRequest(log, url, p) ==
  Append(log, [url |-> url, page |-> p, result |-> "pending"])

\* the answer to the request in flight is recorded in the log
Answered(log, r) == [log EXCEPT ![Len(log)].result = r]

\* variant: 404 instead of 400 is read as "no more pages"
IsEndStatus_404(status) == status = 404

\* variant: every client error is read as "no more pages"
IsEndStatus_Any4xx(status) == status >= 400 /\ status <= 499

\* line 414: the status that is read as "no more pages"
IsEndStatus(status) == status = 400

\* variant: a full page is taken for the last page
IsLastPage_Inclusive(posts) == Len(posts) <= PerPage

\* line 437: last-page heuristic
IsLastPage(posts) == Len(posts) < PerPage

\* variant: off by one in the budget test
RetriesExhausted_OffByOne(rc) == rc > maxRetries

\* line 452
RetriesExhausted(rc) == rc >= maxRetries

\* lines 448-462: the catch block
CatchError(status) ==
  /\ retryCount' = retryCount + 1
  /\ lastStatus' = status
  /\ reqLog' = Answered(reqLog, "fail")
  /\ IF RetriesExhausted(retryCount + 1)
       THEN \* break; then line 465: !success
            /\ hasMorePages' = FALSE
            /\ fpc' = "done"
       ELSE /\ hasMorePages' = hasMorePages
            /\ fpc' = "backoff"
  /\ UNCHANGED <<allPosts, page, success>>

\* lines 413-422: a response whose status is not 2xx
RespondNotOk(status) ==
  /\ fpc = "fetching"
  /\ ~ResponseOk(status)
  /\ IF IsEndStatus(status)
       THEN /\ hasMorePages' = FALSE
            /\ success' = TRUE
            /\ fpc' = "done"
            /\ lastStatus' = status
            /\ reqLog' = Answered(reqLog, "end")
            /\ UNCHANGED <<allPosts, page, retryCount>>
       ELSE CatchError(status)
  /\ UNCHANGED <<svcVars, srcCount, blogVars, otherCalls, matchVars, gapVars, clientVars>>

\* variant: the first post of a page is lost
Pushed_DropFirst(acc, posts) == acc \o Tail(posts)

\* the posts appended by line 433
Pushed(acc, posts) == acc \o posts

\* lines 424-446: a 2xx response carrying the requested page of the origin
RespondOk(status) ==
  /\ fpc = "fetching"
  /\ ResponseOk(status)
  /\ LET req   == reqLog[Len(reqLog)]
         posts == PageItems(req.url, srcCount, req.page)
     IN  /\ lastStatus' = status
         /\ reqLog' = Answered(reqLog, "ok")
         /\ IF Len(posts) = 0
              THEN /\ hasMorePages' = FALSE
                   /\ success' = TRUE
                   /\ fpc' = "done"
                   /\ UNCHANGED <<allPosts, page, retryCount>>
              ELSE /\ allPosts' = Pushed(allPosts, posts)
                   /\ hasMorePages' = IF IsLastPage(posts) THEN FALSE ELSE hasMorePages
                   /\ page' = page + 1
                   /\ success' = TRUE
                   /\ fpc' = "delay"
                   /\ UNCHANGED retryCount
  /\ UNCHANGED <<svcVars, srcCount, blogVars, otherCalls, matchVars, gapVars, clientVars>>

\* line 424: a 2xx response whose body response.json() cannot parse
RespondMalformed(status) ==
  /\ fpc = "fetching"
  /\ ResponseOk(status)
  /\ CatchError(status)
  /\ UNCHANGED <<svcVars, srcCount, blogVars, otherCalls, matchVars, gapVars, clientVars>>

\* line 409: fetch rejects (network failure)
RejectNetwork ==
  /\ fpc = "fetching"
  /\ CatchError(-1)
  /\ UNCHANGED <<svcVars, srcCount, blogVars, otherCalls, matchVars, gapVars, clientVars>>

\* line 446 resolves: loop tests of lines 406, 465, 402, then the next request
DelayElapsed ==
  /\ fpc = "delay"
  /\ IF hasMorePages
       THEN /\ retryCount' = 0
            /\ success' = FALSE
            /\ reqLog' = IssueRequest(reqLog, baseUrl, page)
            /\ fpc' = "fetching"
       ELSE /\ fpc' = "done"
            /\ UNCHANGED <<retryCount, success, reqLog>>
  /\ UNCHANGED <<allPosts, page, hasMorePages, lastStatus>>
  /\ UNCHANGED <<svcVars, srcCount, blogVars, otherCalls, matchVars, gapVars, clientVars>>

\* line 461 resolves: loop test of line 406, then the same page again
BackoffElapsed ==
  /\ fpc = "backoff"
  /\ IF ~success /\ retryCount < maxRetries
       THEN /\ reqLog' = IssueRequest(reqLog, baseUrl, page)
            /\ fpc' = "fetching"
            /\ UNCHANGED hasMorePages
       ELSE /\ hasMorePages' = FALSE
            /\ fpc' = "done"
            /\ UNCHANGED reqLog
  /\ UNCHANGED <<allPosts, page, retryCount, success, lastStatus>>
  /\ UNCHANGED <<svcVars, srcCount, blogVars, otherCalls, matchVars, gapVars, clientVars>>

----------------------------------------------------------------------------
(* WordPressService.stripHtmlTags *)

\* replace(/<[^>]*>/g, '')
RECURSIVE RemoveTags(_)
RemoveTags(s) ==
  IF Len(s) = 0 THEN s
  ELSE IF s[1] = "<" /\ \E j \in 2..Len(s) : s[j] = ">"
    THEN LET j == CHOOSE k \in 2..Len(s) :
                    s[k] = ">" /\ \A m \in 2..(k - 1) : s[m] # ">"
         IN  RemoveTags(SubSeq(s, j + 1, Len(s)))
    ELSE <<s[1]>> \o RemoveTags(Tail(s))

\* length of the longest run of characters of class cls starting at s[i]
RECURSIVE RunLength(_, _, _)
RunLength(s, i, cls) ==
  IF i <= Len(s) /\ ((cls = "digit" /\ IsDigit(s[i])) \/ (cls = "letter" /\ IsLetter(s[i])))
    THEN 1 + RunLength(s, i + 1, cls)
    ELSE 0

\* replace(/&#\d+;/g, '')
RECURSIVE RemoveNumericEntities(_)
RemoveNumericEntities(s) ==
  IF Len(s) = 0 THEN s
  ELSE LET k == RunLength(s, 3, "digit")
       IN  IF /\ OccursAt(s, <<"&", "#">>, 1)
              /\ k >= 1
              /\ 3 + k <= Len(s)
              /\ s[3 + k] = ";"
             THEN RemoveNumericEntities(SubSeq(s, 4 + k, Len(s)))
             ELSE <<s[1]>> \o RemoveNumericEntities(Tail(s))

\* replace(/&[a-zA-Z]+;/g, '')
RECURSIVE RemoveNamedEntities(_)
RemoveNamedEntities(s) ==
  IF Len(s) = 0 THEN s
  ELSE LET k == RunLength(s, 2, "letter")
       IN  IF /\ s[1] = "&"
              /\ k >= 1
              /\ 2 + k <= Len(s)
              /\ s[2 + k] = ";"
             THEN RemoveNamedEntities(SubSeq(s, 3 + k, Len(s)))
             ELSE <<s[1]>> \o RemoveNamedEntities(Tail(s))

\* replace(/\s\s/g, ' ') in place of /\s+/g: whitespace is halved, not collapsed
RECURSIVE CollapseWhitespace_Pairs(_)
CollapseWhitespace_Pairs(s) ==
  IF Len(s) = 0 THEN s
  ELSE IF IsSpace(s[1]) /\ Len(s) >= 2 /\ IsSpace(s[2])
    THEN <<" ">> \o CollapseWhitespace_Pairs(SubSeq(s, 3, Len(s)))
    ELSE <<s[1]>> \o CollapseWhitespace_Pairs(Tail(s))

\* replace(/\s+/g, ' ')
RECURSIVE CollapseWhitespace(_)
CollapseWhitespace(s) ==
  IF Len(s) = 0 THEN s
  ELSE IF IsSpace(s[1])
    THEN IF Len(s) >= 2 /\ IsSpace(s[2])
           THEN CollapseWhitespace(Tail(s))
           ELSE <<" ">> \o CollapseWhitespace(Tail(s))
    ELSE <<s[1]>> \o CollapseWhitespace(Tail(s))

\* String.prototype.trim
RECURSIVE Trim(_)
Trim(s) ==
  IF Len(s) = 0 THEN s
  ELSE IF IsSpace(s[1]) THEN Trim(Tail(s))
  ELSE IF IsSpace(s[Len(s)]) THEN Trim(SubSeq(s, 1, Len(s) - 1))
  ELSE s

stripHtmlTags(html) ==
  LET t1 == RemoveTags(html)
      t2 == ReplaceAll(t1, <<"&", "n", "b", "s", "p", ";">>, <<" ">>)
      t3 == ReplaceAll(t2, <<"&">>, <<"&">>)
      t4 == ReplaceAll(t3, <<"<">>, <<"<">>)
      t5 == ReplaceAll(t4, <<">">>, <<">">>)
      t6 == ReplaceAll(t5, <<"\"">>, <<"\"">>)
      t7 == RemoveNumericEntities(t6)
      t8 == RemoveNamedEntities(t7)
  IN  Trim(CollapseWhitespace(t8))

----------------------------------------------------------------------------
(* The posts of the origin: post id i carries the texts of corpus entry    *)
(* ((i - 1) mod CorpusSize) + 1                                            *)

Title1   == <<"H", "a", "i", "r", " ", "T", "r", "a", "n", "s", "p", "l", "a", "n", "t", " ", "i", "n", " ", "T", "u", "r", "k", "e", "y">>
Content1 == <<"<", "p", ">", "C", "o", "s", "t", "s", "<", "/", "p", ">">>

Title2   == <<"D", "e", "n", "t", "a", "l", " ", "I", "m", "p", "l", "a", "n", "t", "s", " ", "G", "u", "i", "d", "e">>
Content2 == <<"R", "h", "i", "n", "o", "p", "l", "a", "s", "t", "y", " ", " ", "c", "l", "i", "n", "i", "c", "s", " ", "i", "n", " ", "T", "u", "r", "k", "e", "y">>

Title3   == <<"H", "a", "i", "r", " ", "T", "r", "a", "n", "s", "p", "l", "a", "n", "t", " ", "i", "n", " ", "I", "s", "t", "a", "n", "b", "u", "l">>
Content3 == <<"W", "e", "i", "g", "h", "t", " ", "l", "o", "s", "s", " ", "a", "f", "t", "e", "r", " ", "s", "u", "r", "g", "e", "r", "y">>

Title4   == <<"R", "h", "i", "n", "o", "p", "l", "a", "s", "t", "y", " ", "a", "n", "d", " ", "h", "a", "i", "r", " ", "t", "r", "a", "n", "s", "p", "l", "a", "n", "t", ":", " ", "T", "u", "r", "k", "e", "y">>
Content4 == <<>>

Title5   == <<"W", "e", "i", "g", "h", "t", " ", "L", "o", "s", "s", " ", "A", "f", "t", "e", "r", " ", "S", "u", "r", "g", "e", "r", "y">>
Content5 == <<"T", "u", "r", "k", "e", "y", " ", "&", "n", "b", "s", "p", ";", "w", "e", "i", "g", "h", "t", " ", "l", "o", "s", "s", " ", "s", "u", "r", "g", "e", "r", "y">>

Title6   == <<"T", "r", "a", "v", "e", "l", " ", "t", "o", " ", "T", "u", "r", "k", "e", "y">>
Content6 == <<"W", "e", "i", "g", "h", "t", " ", "l", "o", "s", "s", " ", "s", "u", "r", "g", "e", "r", "y", " ", "a", "n", "d", " ", "a", " ", "h", "a", "i", "r", " ", "<", "b", ">", "t", "r", "a", "n", "s", "p", "l", "a", "n", "t", "<", "/", "b", ">">>

Title7   == <<"T", "h", "i", "s", " ", "w", "i", "t", "h", " ", "u", "s">>
Content7 == <<"2", "0", "2", "4", " ", "<", "i", ">", "C", "o", "s", "t", "s", "<", "/", "i", ">", " ", "d", "a", "y", "_", "1", " ", "&", "#", "8", "2", "1", "7", ";", "s">>

Corpus == << [title |-> Title1, content |-> Content1],
             [title |-> Title2, content |-> Content2],
             [title |-> Title3, content |-> Content3],
             [title |-> Title4, content |-> Content4],
             [title |-> Title5, content |-> Content5],
             [title |-> Title6, content |-> Content6],
             [title |-> Title7, content |-> Content7] >>

CorpusSize == Len(Corpus)

\* the corpus entry of a post
CorpusIndex(post) == ((post.id - 1) % CorpusSize) + 1

\* post.title.rendered and post.content.rendered
TitleRendered(post)   == Corpus[CorpusIndex(post)].title
ContentRendered(post) == Corpus[CorpusIndex(post)].content

----------------------------------------------------------------------------
(* WordPressService.extractKeywords *)

\* line 495
stopWords ==
  <<<<"t", "h", "e">>, <<"a", "n", "d">>, <<"o", "r">>, <<"b", "u", "t">>,
     <<"i", "n">>, <<"o", "n">>, <<"a", "t">>, <<"t", "o">>,
     <<"f", "o", "r">>, <<"o", "f">>, <<"w", "i", "t", "h">>, <<"b", "y">>,
     <<"a", "n">>, <<"a">>, <<"i", "s">>, <<"a", "r", "e">>,
     <<"w", "a", "s">>, <<"w", "e", "r", "e">>, <<"b", "e">>,
     <<"b", "e", "e", "n">>, <<"h", "a", "v", "e">>, <<"h", "a", "s">>,
     <<"h", "a", "d">>, <<"d", "o">>, <<"d", "o", "e", "s">>,
     <<"d", "i", "d">>, <<"w", "i", "l", "l">>, <<"w", "o", "u", "l", "d">>,
     <<"c", "o", "u", "l", "d">>, <<"s", "h", "o", "u", "l", "d">>,
     <<"m", "a", "y">>, <<"m", "i", "g", "h", "t">>, <<"m", "u", "s", "t">>,
     <<"c", "a", "n">>, <<"t", "h", "i", "s">>, <<"t", "h", "a", "t">>,
     <<"t", "h", "e", "s", "e">>, <<"t", "h", "o", "s", "e">> >>

\* Array.prototype.includes
IncludesElement(arr, x) == \E i \in DOMAIN arr : arr[i] = x

\* \w of a regular expression
IsWordChar(c) == IsLetter(c) \/ IsDigit(c) \/ c = "_"

\* length of the run of word characters starting at s[i]
RECURSIVE WordRun(_, _)
WordRun(s, i) ==
  IF i <= Len(s) /\ IsWordChar(s[i]) THEN 1 + WordRun(s, i + 1) ELSE 0

\* text.match(/\b\w+\b/g) || []: the maximal runs of word characters
RECURSIVE MatchWords(_)
MatchWords(s) ==
  IF Len(s) = 0 THEN << >>
  ELSE IF ~IsWordChar(s[1]) THEN MatchWords(Tail(s))
  ELSE LET k == WordRun(s, 1)
       IN  <<SubSeq(s, 1, k)>> \o MatchWords(SubSeq(s, k + 1, Len(s)))

\* lines 498-503: the words of one post
WordsOfText(titleRendered, contentRendered) ==
  LET content == ToLowerCase(stripHtmlTags(contentRendered))
      title   == ToLowerCase(titleRendered)
  IN  MatchWords(title \o <<" ">> \o content)

\* the words of each corpus entry
WordsTable == [i \in 1..CorpusSize |-> WordsOfText(Corpus[i].title, Corpus[i].content)]

PostWords(post) == WordsTable[CorpusIndex(post)]

\* line 506
IsKeyword_NoStopWords(word) == Len(word) > 3

IsKeyword(word) == Len(word) > 3 /\ ~IncludesElement(stopWords, word)

\* Set.prototype.add: the elements of a Set in insertion order
AddToSet(set, x) == IF IncludesElement(set, x) THEN set ELSE Append(set, x)

\* lines 505-509 (the length of the set is taken at every step so that the
\* set is computed before the next word is looked at)
RECURSIVE AddKeywords(_, _)
AddKeywords(keywords, words) ==
  IF Len(words) = 0 THEN keywords
  ELSE LET added == IF IsKeyword(words[1]) THEN AddToSet(keywords, words[1])
                    ELSE keywords
       IN  IF Len(added) >= 0 THEN AddKeywords(added, Tail(words)) ELSE added

\* lines 497-510
RECURSIVE CollectKeywords(_, _)
CollectKeywords(keywords, posts) ==
  IF Len(posts) = 0 THEN keywords
  ELSE LET added == AddKeywords(keywords, PostWords(posts[1]))
       IN  IF Len(added) >= 0 THEN CollectKeywords(added, Tail(posts)) ELSE added

\* the characters of words by UTF-16 code unit, ascending
CodeUnitOrder ==
  <<"0", "1", "2", "3", "4", "5", "6", "7", "8", "9">> \o UpperLetters
    \o <<"_">> \o LowerLetters

CodeUnitRank(c) == CHOOSE i \in DOMAIN CodeUnitOrder : CodeUnitOrder[i] = c

\* a < b for strings, as Array.prototype.sort compares them by default:
\* by code units, a proper prefix first
StringLess(a, b) ==
  \E k \in 1..(Len(b)) :
    /\ \A j \in 1..(k - 1) : j <= Len(a) /\ a[j] = b[j]
    /\ k - 1 <= Len(a)
    /\ \/ k > Len(a)
       \/ CodeUnitRank(a[k]) < CodeUnitRank(b[k])

\* Array.prototype.sort(): insertion of x into a sorted array, after its equals
InsertString(sorted, x) ==
  LET n == Cardinality({i \in DOMAIN sorted : ~StringLess(x, sorted[i])})
  IN  SubSeq(sorted, 1, n) \o <<x>> \o SubSeq(sorted, n + 1, Len(sorted))

RECURSIVE SortStrings(_, _)
SortStrings(sorted, rest) ==
  IF Len(rest) = 0 THEN sorted
  ELSE LET inserted == InsertString(sorted, rest[1])
       IN  IF Len(inserted) >= 0 THEN SortStrings(inserted, Tail(rest))
           ELSE inserted

\* extractKeywords(posts), lines 493-514
extractKeywords(posts) == SortStrings(<< >>, CollectKeywords(<< >>, posts))

----------------------------------------------------------------------------
(* WordPressService.analyzeTreatmentMatches *)

InTurkey     == <<" ", "i", "n", " ", "T", "u", "r", "k", "e", "y">>
TurkeyWord   == <<"t", "u", "r", "k", "e", "y">>
WeightLossSurgery == <<"W", "e", "i", "g", "h", "t", " ", "L", "o", "s", "s", " ", "S", "u", "r", "g", "e", "r", "y", " ", "i", "n", " ", "T", "u", "r", "k", "e", "y">>

\* replace(/[^a-zA-Z0-9\s]/g, ' ')
RemoveSpecialChars(s) ==
  [i \in 1..Len(s) |->
     IF IsLetter(s[i]) \/ IsDigit(s[i]) \/ IsSpace(s[i]) THEN s[i] ELSE " "]

\* lines 541-546
TreatmentKeywords(treatment) ==
  LET baseTreatment == ReplaceFirst(treatment, InTurkey, EmptyStr)
  IN  << ToLowerCase(baseTreatment),
         Join(Split(ToLowerCase(baseTreatment))),
         RemoveSpecialChars(ToLowerCase(baseTreatment)) >>

\* lines 553-561
TitleHasSpecificKeyword(title, treatmentKeywords) ==
  \E n \in 1..Len(treatmentKeywords) :
    LET keyword == treatmentKeywords[n]
        words   == Split(keyword)
    IN  IF Len(words) >= 2
          THEN \A w \in 1..Len(words) :
                 Len(words[w]) > 2 /\ Includes(title, words[w])
          ELSE Len(keyword) > 3 /\ Includes(title, keyword)

\* variant: every word of a phrase is required
ContentHasSpecificKeyword_AllWords(content, treatmentKeywords) ==
  \E n \in 1..Len(treatmentKeywords) :
    LET keyword == treatmentKeywords[n]
        words   == Split(keyword)
    IN  IF Len(words) >= 2
          THEN \A w \in 1..Len(words) :
                 Len(words[w]) > 2 /\ Includes(content, words[w])
          ELSE Len(keyword) > 3 /\ Includes(content, keyword)

\* lines 564-573
ContentHasSpecificKeyword(content, treatmentKeywords) ==
  \E n \in 1..Len(treatmentKeywords) :
    LET keyword == treatmentKeywords[n]
        words   == Split(keyword)
    IN  IF Len(words) >= 2
          THEN Cardinality({w \in 1..Len(words) :
                 Len(words[w]) > 2 /\ Includes(content, words[w])})
                 >= Min(2, Len(words))
          ELSE Len(keyword) > 3 /\ Includes(content, keyword)

\* variant: without the locale marker
TextMatches_NoLocale(treatment, titleRendered, contentRendered) ==
  LET title   == ToLowerCase(stripHtmlTags(titleRendered))
      content == ToLowerCase(stripHtmlTags(contentRendered))
      kws     == TreatmentKeywords(treatment)
  IN  \/ TitleHasSpecificKeyword(title, kws)
      \/ (ContentHasSpecificKeyword(content, kws) /\ treatment # WeightLossSurgery)

\* lines 549-579: the filter predicate on the rendered title and content
TextMatches(treatment, titleRendered, contentRendered) ==
  LET title   == ToLowerCase(stripHtmlTags(titleRendered))
      content == ToLowerCase(stripHtmlTags(contentRendered))
      kws     == TreatmentKeywords(treatment)
      hasTurkeyWord == Includes(title, TurkeyWord) \/ Includes(content, TurkeyWord)
      hasSpecificTreatmentIndicator ==
        \/ TitleHasSpecificKeyword(title, kws)
        \/ (ContentHasSpecificKeyword(content, kws) /\ treatment # WeightLossSurgery)
  IN  hasSpecificTreatmentIndicator /\ hasTurkeyWord

\* TextMatches on the texts of the corpus, computed once per treatment and entry
MatchTable ==
  [treatment \in ConfiguredTreatments |->
     [c \in 1..CorpusSize |->
        TextMatches(treatment, Corpus[c].title, Corpus[c].content)]]

\* lines 548-580: the filter predicate
PostMatches(treatment, post) ==
  IF treatment \in ConfiguredTreatments
    THEN MatchTable[treatment][CorpusIndex(post)]
    ELSE TextMatches(treatment, TitleRendered(post), ContentRendered(post))

\* Array.prototype.filter
RECURSIVE MatchingPosts(_, _)
MatchingPosts(treatment, posts) ==
  IF Len(posts) = 0 THEN << >>
  ELSE IF PostMatches(treatment, posts[1])
    THEN <<posts[1]>> \o MatchingPosts(treatment, Tail(posts))
    ELSE MatchingPosts(treatment, Tail(posts))

\* variant: the frequency counts distinct posts
TreatmentMatch_Distinct(treatment, posts) ==
  LET matchingPosts == MatchingPosts(treatment, posts)
  IN  [treatment |-> treatment, posts |-> matchingPosts,
       frequency |-> Cardinality({matchingPosts[i] : i \in DOMAIN matchingPosts})]

\* lines 582-586
TreatmentMatch(treatment, posts) ==
  LET matchingPosts == MatchingPosts(treatment, posts)
  IN  [treatment |-> treatment, posts |-> matchingPosts,
       frequency |-> Len(matchingPosts)]

\* the comparator of line 587
CompareFrequency(a, b) == b.frequency - a.frequency

\* variant: an unstable sort, x goes before the elements it ties with
RECURSIVE InsertSorted_Unstable(_, _)
InsertSorted_Unstable(sorted, x) ==
  IF Len(sorted) = 0 THEN <<x>>
  ELSE IF CompareFrequency(x, sorted[1]) <= 0
    THEN <<x>> \o sorted
    ELSE <<sorted[1]>> \o InsertSorted_Unstable(Tail(sorted), x)

\* Array.prototype.sort (stable): x goes before the first element it must precede
RECURSIVE InsertSorted(_, _)
InsertSorted(sorted, x) ==
  IF Len(sorted) = 0 THEN <<x>>
  ELSE IF CompareFrequency(x, sorted[1]) < 0
    THEN <<x>> \o sorted
    ELSE <<sorted[1]>> \o InsertSorted(Tail(sorted), x)

RECURSIVE SortMatches(_, _)
SortMatches(sorted, rest) ==
  IF Len(rest) = 0 THEN sorted
  ELSE SortMatches(InsertSorted(sorted, rest[1]), Tail(rest))

\* variant: treatments without a matching post are left out
analyzeTreatmentMatches_DropEmpty(posts, ts) ==
  SelectSeq(SortMatches(<< >>, [i \in 1..Len(ts) |-> TreatmentMatch(ts[i], posts)]),
            LAMBDA m : m.frequency > 0)

\* lines 539 and 587: map over this.treatments, then sort
analyzeTreatmentMatches(posts, ts) ==
  SortMatches(<< >>, [i \in 1..Len(ts) |-> TreatmentMatch(ts[i], posts)])

----------------------------------------------------------------------------
(* Calls *)

\* lines 397-411: the locals, then the request of page 1
StartFetchAllPosts ==
  /\ allPosts' = << >>
  /\ page' = 1
  /\ hasMorePages' = TRUE
  /\ retryCount' = 0
  /\ success' = FALSE
  /\ lastStatus' = 0
  /\ reqLog' = IssueRequest(<< >>, baseUrl, 1)
  /\ fpc' = "fetching"

\* a caller sets the base URL before it starts a run
OwnSetBaseUrl(url) ==
  /\ fpc = "idle"
  /\ gpc = "idle"
  /\ SetBaseUrl(url)
  /\ UNCHANGED otherCalls

\* a caller sets the treatments before it starts a run
OwnSetTreatments(ts) ==
  /\ fpc = "idle"
  /\ gpc = "idle"
  /\ SetTreatments(ts)
  /\ UNCHANGED otherCalls

\* fetchAllPosts() called on its own
FetchAllPostsCall ==
  /\ fpc = "idle"
  /\ gpc = "idle"
  /\ StartFetchAllPosts
  /\ UNCHANGED <<svcVars, srcCount, blogVars, otherCalls, matchVars, gapVars, clientVars>>

\* the categories of the origin at url
CategoriesOf(url) == << [site |-> url, id |-> 1], [site |-> url, id |-> 2] >>

\* getBlogData, lines 594-597: both fetches are started before the first await
GetBlogData ==
  /\ fpc = "idle"
  /\ gpc = "idle"
  /\ StartFetchAllPosts
  /\ cpc' = "fetching"
  /\ catUrl' = baseUrl
  /\ gpc' = "waiting"
  /\ startUrl' = baseUrl
  /\ startTreatments' = treatments
  /\ UNCHANGED <<svcVars, srcCount, categories, blogData, otherCalls, matchVars, gapVars, clientVars>>

\* fetchCategories, lines 480-484
CategoriesOk ==
  /\ cpc = "fetching"
  /\ categories' = CategoriesOf(catUrl)
  /\ cpc' = "done"
  /\ UNCHANGED <<svcVars, srcCount, fetchVars, catUrl, gpc, blogData, startUrl,
                 startTreatments, otherCalls, matchVars, gapVars, clientVars>>

\* fetchCategories, lines 481-488: a non-2xx status or a rejection
CategoriesFail ==
  /\ cpc = "fetching"
  /\ categories' = << >>
  /\ cpc' = "done"
  /\ UNCHANGED <<svcVars, srcCount, fetchVars, catUrl, gpc, blogData, startUrl,
                 startTreatments, otherCalls, matchVars, gapVars, clientVars>>

\* getBlogData, lines 599-607: the blog data of the posts and categories
BlogDataOf(posts, cats, ts) ==
  [posts |-> posts, categories |-> cats,
   keywords |-> extractKeywords(posts),
   treatmentMatches |-> analyzeTreatmentMatches(posts, ts)]

\* getBlogData, lines 599-607: after both promises are fulfilled
GetBlogDataResume ==
  /\ gpc = "waiting"
  /\ fpc = "done"
  /\ cpc = "done"
  /\ blogData' = BlogDataOf(allPosts, categories, treatments)
  /\ gpc' = "done"
  /\ UNCHANGED <<svcVars, srcCount, fetchVars, cpc, catUrl, categories, startUrl,
                 startTreatments, otherCalls, matchVars, gapVars, clientVars>>

\* the steps of a fetchAllPosts run
FetchStep ==
  \/ \E status \in Statuses : RespondNotOk(status)
  \/ \E status \in Statuses : RespondOk(status)
  \/ \E status \in Statuses : RespondMalformed(status)
  \/ RejectNetwork
  \/ DelayElapsed
  \/ BackoffElapsed

----------------------------------------------------------------------------
(* One task calling fetchAllPosts *)

Next ==
  \/ \E url \in Urls : OwnSetBaseUrl(url)
  \/ \E ts \in TreatmentLists : OwnSetTreatments(ts)
  \/ FetchAllPostsCall
  \/ FetchStep

Spec == Init /\ [][Next]_vars

\* every await of the run settles: the fetch resolves or rejects, the timers fire
FairSpec == Spec /\ WF_vars(FetchStep)

----------------------------------------------------------------------------
(* Properties of fetchAllPosts *)

CeilDiv(a, b) == (a + b - 1) \div b

\* the concatenation of pages 1..j of the origin at url
RECURSIVE PagesUpTo(_, _)
PagesUpTo(url, j) ==
  IF j <= 0 THEN << >>
  ELSE PagesUpTo(url, j - 1) \o PageItems(url, srcCount, j)

\* all the posts of the origin at url
AllItems(url) == [i \in 1..srcCount |-> [site |-> url, id |-> i]]

\* number of requests issued for page k
Attempts(k) == Cardinality({i \in DOMAIN reqLog : reqLog[i].page = k})

\* number of requests for the page of request i issued up to request i
AttemptNo(i) ==
  Cardinality({m \in 1..i : reqLog[m].page = reqLog[i].page})

\* the run has returned and every request was answered by a 2xx page
ReturnedWithoutFailure ==
  /\ fpc = "done"
  /\ \A i \in DOMAIN reqLog : reqLog[i].result = "ok"

\* the latest request has been answered (lastStatus is its status)
LatestAnswered == reqLog # << >> /\ reqLog[Len(reqLog)].result # "pending"

TransientStatuses == {-1} \cup {s \in Statuses : s >= 500}

\* C1 as stated: with no failures fetchAllPosts returns exactly the N posts
\* after exactly ceil(N/P) successful page requests, for every N >= 0.
C1_CeilRequests ==
  ReturnedWithoutFailure =>
    /\ allPosts = AllItems(baseUrl)
    /\ Len(reqLog) = CeilDiv(srcCount, PerPage)

\* C1 amended: with no failures fetchAllPosts returns exactly the N posts
\* after exactly floor(N/P) + 1 successful page requests; that is ceil(N/P)
\* when N is not a multiple of P, and one more request, answered by an empty
\* page, when N is a multiple of P (N = 0 included).
C1_FloorPlusOneRequests ==
  ReturnedWithoutFailure =>
    /\ allPosts = AllItems(baseUrl)
    /\ Len(reqLog) = (srcCount \div PerPage) + 1
    /\ (srcCount % PerPage # 0 => Len(reqLog) = CeilDiv(srcCount, PerPage))
    /\ (srcCount % PerPage = 0 =>
          PageItems(baseUrl, srcCount, reqLog[Len(reqLog)].page) = << >>)

\* two full pages and a short third page: all posts in 3 requests, no retries
C1_Witness ==
  /\ ReturnedWithoutFailure
  /\ srcCount = 2 * PerPage + 2
  /\ Len(allPosts) = srcCount
  /\ Len(reqLog) = 3

\* C2: a failed request of page k (network rejection, 5xx) is followed by a
\* request of the same page k; no page is requested more than 3 times, each
\* page having its own budget of 3; when the 3rd attempt of page k fails the
\* run stops and returns exactly the posts of pages 1..k-1, without raising.
C2_RetrySamePage ==
  /\ fpc # "raised"
  /\ \A i \in DOMAIN reqLog :
       /\ AttemptNo(i) <= 3
       /\ (reqLog[i].result = "fail" /\ i < Len(reqLog)) =>
            /\ reqLog[i + 1].page = reqLog[i].page
            /\ AttemptNo(i) < 3
       /\ (i > 1 /\ reqLog[i].page # reqLog[i - 1].page) =>
            reqLog[i - 1].result = "ok"
  /\ (LatestAnswered /\ lastStatus \in TransientStatuses) =>
       IF AttemptNo(Len(reqLog)) < 3
         THEN fpc = "backoff" /\ hasMorePages
         ELSE /\ fpc = "done"
              /\ allPosts = PagesUpTo(baseUrl, reqLog[Len(reqLog)].page - 1)

\* page 1 needed two retries, page 2 still had three attempts and all failed
C2_Witness ==
  /\ fpc = "done"
  /\ Len(reqLog) = 6
  /\ Attempts(1) = 3
  /\ Attempts(2) = 3
  /\ reqLog[6].result = "fail"
  /\ lastStatus = 503
  /\ Len(allPosts) = PerPage

\* C3: at every point of a run the accumulator is the concatenation of the
\* complete pages 1..j, in page order, for some j.
C3_WholePagesInOrder ==
  \E j \in 0..(srcCount \div PerPage + 1) :
    /\ allPosts = PagesUpTo(baseUrl, j)
    /\ fpc \in {"fetching", "backoff"} => j = page - 1

\* two pages accumulated although requests failed on the way
C3_Witness ==
  /\ Len(allPosts) = 2 * PerPage
  /\ \E i \in DOMAIN reqLog : reqLog[i].result = "fail"
  /\ fpc = "fetching"

\* an answered request that ends the pagination: HTTP 400, an empty page or
\* a page shorter than the page size
EndsPagination(i) ==
  \/ reqLog[i].result = "end"
  \/ /\ reqLog[i].result = "ok"
     /\ Len(PageItems(reqLog[i].url, srcCount, reqLog[i].page)) < PerPage

\* C4: every run returns, whatever the origin answers, and never raises;
\* no request follows the first empty page, the first page shorter than the
\* page size or the first HTTP 400.
C4_TerminatesAndStops ==
  /\ [](fpc # "raised")
  /\ []((LatestAnswered /\ lastStatus = 400) => fpc = "done")
  /\ [](\A i \in DOMAIN reqLog :
          EndsPagination(i) =>
            i = Len(reqLog) /\ ~hasMorePages /\ fpc \in {"delay", "done"})
  /\ (fpc = "fetching") ~> (fpc = "done")

\* a run that was stopped by HTTP 400 on the page after a full page
C4_Witness ==
  /\ fpc = "done"
  /\ lastStatus = 400
  /\ Len(reqLog) = 2
  /\ Len(allPosts) = PerPage

\* C5 as stated: every 4xx status ends pagination at once, the failing
\* page is not requested again.
C5_Any4xxEnds ==
  (LatestAnswered /\ lastStatus >= 400 /\ lastStatus <= 499) =>
    /\ fpc = "done"
    /\ Attempts(reqLog[Len(reqLog)].page) = 1

\* C5 amended: only HTTP 400 ends pagination at once; any other 4xx status
\* is handled like a transient failure: the same page is requested again, up
\* to 3 attempts, and after the 3rd failure the run stops; in both cases the
\* posts accumulated so far are returned and nothing is raised.
C5_Only400EndsAtOnce ==
  /\ fpc # "raised"
  /\ (LatestAnswered /\ lastStatus = 400) =>
       /\ fpc = "done"
       /\ reqLog[Len(reqLog)].result = "end"
       /\ allPosts = PagesUpTo(baseUrl, reqLog[Len(reqLog)].page - 1)
  /\ (LatestAnswered /\ lastStatus > 400 /\ lastStatus <= 499) =>
       IF AttemptNo(Len(reqLog)) < 3
         THEN fpc = "backoff" /\ hasMorePages
         ELSE /\ fpc = "done"
              /\ allPosts = PagesUpTo(baseUrl, reqLog[Len(reqLog)].page - 1)

\* HTTP 404 on the first attempt of page 2: the run backs off to retry it
C5_Witness ==
  /\ LatestAnswered
  /\ lastStatus = 404
  /\ reqLog[Len(reqLog)].page = 2
  /\ Attempts(2) = 1
  /\ fpc = "backoff"

----------------------------------------------------------------------------
(* Two tasks on the exported wordpressService (line 673): one runs          *)
(* getBlogData, the other calls the setters while that run is suspended     *)
(* at an await                                                             *)

\* origin sizes of the concurrent runs: no post, and a full page plus one post
ConcurrentSizes == {0, PerPage + 1}

InitConcurrent == Init /\ srcCount \in ConcurrentSizes

\* another task's setBaseUrl (blogAIService.ts line 95)
OtherSetBaseUrl(url) ==
  /\ gpc = "waiting"
  /\ otherCalls < MaxOtherCalls
  /\ SetBaseUrl(url)
  /\ otherCalls' = otherCalls + 1

\* another task's setTreatments (blogAIService.ts line 54)
OtherSetTreatments(ts) ==
  /\ gpc = "waiting"
  /\ otherCalls < MaxOtherCalls
  /\ SetTreatments(ts)
  /\ otherCalls' = otherCalls + 1

NextConcurrent ==
  \/ \E url \in Urls : OwnSetBaseUrl(url)
  \/ \E ts \in TreatmentLists : OwnSetTreatments(ts)
  \/ GetBlogData
  \/ FetchStep
  \/ CategoriesOk
  \/ CategoriesFail
  \/ GetBlogDataResume
  \/ \E url \in Urls : OtherSetBaseUrl(url)
  \/ \E ts \in TreatmentLists : OtherSetTreatments(ts)

SpecConcurrent == InitConcurrent /\ [][NextConcurrent]_vars

\* C6: whatever another task does on the shared service during a run, every
\* page request of the run goes to the base URL the run started with, and
\* its treatment matches are computed against the treatments it started with.
C6_RunIsolated ==
  /\ gpc # "idle" => \A i \in DOMAIN reqLog : reqLog[i].url = startUrl
  /\ gpc = "done" =>
       blogData.treatmentMatches =
         analyzeTreatmentMatches(blogData.posts, startTreatments)

----------------------------------------------------------------------------
(* Direct calls of analyzeTreatmentMatches *)

\* the posts of the origin a caller can pass
OriginPosts == {[site |-> baseUrl, id |-> i] : i \in 1..srcCount}

\* analyzeTreatmentMatches(posts), lines 538-588
AnalyzeTreatmentMatchesCall(posts) ==
  /\ fpc = "idle"
  /\ gpc = "idle"
  /\ Len(posts) <= MaxPosts
  /\ argPosts' = posts
  /\ argTreatments' = treatments
  /\ matches' = analyzeTreatmentMatches(posts, treatments)
  /\ UNCHANGED <<svcVars, srcCount, fetchVars, blogVars, otherCalls, gapVars,
               clientVars>>

\* the posts arguments tried next: none, or the latest ones and one more post
NextPostsArgs == {<< >>} \cup {Append(argPosts, p) : p \in OriginPosts}

NextMatch ==
  \/ \E ts \in TreatmentLists : OwnSetTreatments(ts)
  \/ \E posts \in NextPostsArgs : AnalyzeTreatmentMatchesCall(posts)

\* the origin holds each corpus entry once
InitMatch == Init /\ srcCount = CorpusSize

SpecMatch == InitMatch /\ [][NextMatch]_vars

\* position of treatment t in the list ts (0 when absent)
IndexOf(ts, t) ==
  IF \E i \in DOMAIN ts : ts[i] = t
    THEN CHOOSE i \in DOMAIN ts : ts[i] = t /\ \A m \in 1..(i - 1) : ts[m] # t
    ELSE 0

\* the frequency a result reports for treatment t (-1 when it has no entry)
FrequencyOf(ms, t) ==
  IF \E i \in DOMAIN ms : ms[i].treatment = t
    THEN ms[CHOOSE i \in DOMAIN ms : ms[i].treatment = t].frequency
    ELSE -1

\* C7: the result has exactly one entry for each configured treatment, also
\* for treatments no post matches, and in every entry frequency is the
\* number of posts of its posts list.
C7_OneMatchPerTreatment ==
  /\ Len(matches) = Len(argTreatments)
  /\ \A i \in DOMAIN argTreatments :
       Cardinality({m \in DOMAIN matches : matches[m].treatment = argTreatments[i]})
         = Cardinality({k \in DOMAIN argTreatments : argTreatments[k] = argTreatments[i]})
  /\ \A m \in DOMAIN matches : matches[m].frequency = Len(matches[m].posts)

\* a three-treatment result on a non-empty corpus with a frequency-0 entry
C7_Witness ==
  /\ Len(argPosts) > 0
  /\ Len(argTreatments) = 3
  /\ \E m \in DOMAIN matches : matches[m].frequency = 0 /\ matches[m].posts = << >>
  /\ \E m \in DOMAIN matches : matches[m].frequency > 0

\* C8: the result is ordered by frequency descending, and entries of equal
\* frequency are in the order their treatments have in the configured list.
C8_SortedStable ==
  \A i, j \in DOMAIN matches :
    i < j =>
      /\ matches[i].frequency >= matches[j].frequency
      /\ matches[i].frequency = matches[j].frequency =>
           IndexOf(argTreatments, matches[i].treatment)
             < IndexOf(argTreatments, matches[j].treatment)

\* the last configured treatment comes first, the other two tie above zero
C8_Witness ==
  /\ argTreatments = <<T_Rhino, T_Weight, T_Hair>>
  /\ Len(matches) = 3
  /\ matches[1].treatment = T_Hair
  /\ matches[2].treatment = T_Rhino
  /\ matches[3].treatment = T_Weight
  /\ matches[1].frequency > matches[2].frequency
  /\ matches[2].frequency = matches[3].frequency
  /\ matches[3].frequency > 0

\* the latest call repeats the previous one with one more post at the end
PostAdded ==
  /\ argTreatments' = argTreatments
  /\ Len(argPosts') = Len(argPosts) + 1
  /\ SubSeq(argPosts', 1, Len(argPosts)) = argPosts
  /\ Len(matches) = Len(argTreatments)

AddedPost == argPosts'[Len(argPosts')]

\* C9 as stated: adding a post that satisfies treatment T's predicate raises
\* T's frequency by exactly 1 and leaves every other frequency unchanged.
C9_OthersUnchanged ==
  [][PostAdded =>
       \A i \in DOMAIN argTreatments :
         PostMatches(argTreatments[i], AddedPost) =>
           /\ FrequencyOf(matches', argTreatments[i])
                = FrequencyOf(matches, argTreatments[i]) + 1
           /\ \A k \in DOMAIN argTreatments :
                k # i => FrequencyOf(matches', argTreatments[k])
                           = FrequencyOf(matches, argTreatments[k])]_vars

\* C9 amended: adding a post that satisfies treatment T's predicate raises
\* T's frequency by exactly 1; the frequency of any other treatment rises by
\* 1 when the post satisfies that treatment's predicate too, and is
\* unchanged otherwise.
C9_EachByItsPredicate ==
  [][PostAdded =>
       \A i \in DOMAIN argTreatments :
         FrequencyOf(matches', argTreatments[i])
           = FrequencyOf(matches, argTreatments[i])
               + (IF PostMatches(argTreatments[i], AddedPost) THEN 1 ELSE 0)]_vars

\* a post matching two treatments was added to a corpus that already held it
C9_Witness ==
  /\ argTreatments = <<T_Hair, T_Rhino>>
  /\ Len(argPosts) = 2
  /\ argPosts[1] = argPosts[2]
  /\ PostMatches(T_Hair, argPosts[2])
  /\ PostMatches(T_Rhino, argPosts[2])
  /\ FrequencyOf(matches, T_Hair) = 2
  /\ FrequencyOf(matches, T_Rhino) = 2

----------------------------------------------------------------------------
(* JavaScript Number arithmetic (IEEE 754 binary64, round to nearest, ties  *)
(* to even) on the values analyzeKeywordUsage computes.  A positive Number  *)
(* is [bits, pexp]: 53 significand bits, most significant first, standing   *)
(* for 0.b1 b2 ... b53 times 2^pexp; zero has no bits.                      *)

SignificandBits == 53

JsZero == [bits |-> << >>, pexp |-> 0]

\* binary digits of n > 0, most significant first
RECURSIVE BitsOfNat(_)
BitsOfNat(n) == IF n <= 1 THEN <<n>> ELSE BitsOfNat(n \div 2) \o <<n % 2>>

\* the w low binary digits of v, most significant first
FixedBits(v, w) == [i \in 1..w |-> (v \div (2 ^ (w - i))) % 2]

\* the integer a bit string of at most 30 bits stands for
RECURSIVE NatOfBits(_)
NatOfBits(bits) ==
  IF Len(bits) = 0 THEN 0
  ELSE 2 * NatOfBits(SubSeq(bits, 1, Len(bits) - 1)) + bits[Len(bits)]

\* bits + 1, with the carry out of the most significant bit
IncrementBits(bits) ==
  IF \E j \in DOMAIN bits : bits[j] = 0
    THEN LET j == CHOOSE k \in DOMAIN bits :
                    bits[k] = 0 /\ \A m \in (k + 1)..Len(bits) : bits[m] = 1
         IN  [bits  |-> [i \in DOMAIN bits |->
                           IF i < j THEN bits[i] ELSE IF i = j THEN 1 ELSE 0],
              carry |-> 0]
    ELSE [bits |-> [i \in DOMAIN bits |-> 0], carry |-> 1]

\* round to nearest, ties to even: bits are the leading 53 bits of the exact
\* value, roundBit the next one, sticky whether anything non-zero follows
RoundNearestEven(bits, roundBit, sticky, pexp) ==
  IF roundBit = 1 /\ (sticky \/ bits[Len(bits)] = 1)
    THEN LET up == IncrementBits(bits)
         IN  IF up.carry = 1
               THEN [bits |-> <<1>> \o SubSeq(up.bits, 1, Len(bits) - 1),
                     pexp |-> pexp + 1]
               ELSE [bits |-> up.bits, pexp |-> pexp]
    ELSE [bits |-> bits, pexp |-> pexp]

\* zero bits right after the binary point of r / b, for 0 < r < b
RECURSIVE LeadingZeros(_, _)
LeadingZeros(r, b) == IF 2 * r >= b THEN 0 ELSE 1 + LeadingZeros(2 * r, b)

\* width of the pieces the long arithmetic works on
ChunkBits == 18

\* the first 72 bits of the binary expansion of r / b, and the remainder
\* left, for 0 <= r < b < 2^13
LongDivision(r, b) ==
  LET c1 == (r * 2 ^ ChunkBits) \div b
      r1 == (r * 2 ^ ChunkBits) % b
      c2 == (r1 * 2 ^ ChunkBits) \div b
      r2 == (r1 * 2 ^ ChunkBits) % b
      c3 == (r2 * 2 ^ ChunkBits) \div b
      r3 == (r2 * 2 ^ ChunkBits) % b
      c4 == (r3 * 2 ^ ChunkBits) \div b
      r4 == (r3 * 2 ^ ChunkBits) % b
  IN  [bits |-> FixedBits(c1, ChunkBits) \o FixedBits(c2, ChunkBits)
                  \o FixedBits(c3, ChunkBits) \o FixedBits(c4, ChunkBits),
       rem  |-> r4]

\* the Number a / b for integers a >= 0 and 0 < b < 2^13
JsDivide(a, b) ==
  IF a = 0 THEN JsZero
  ELSE LET ibits  == IF a \div b = 0 THEN << >> ELSE BitsOfNat(a \div b)
           lz     == IF a \div b = 0 THEN LeadingZeros(a % b, b) ELSE 0
           frac   == LongDivision((a % b) * 2 ^ lz, b)
           stream == ibits \o frac.bits
       IN  RoundNearestEven(
             SubSeq(stream, 1, SignificandBits),
             stream[SignificandBits + 1],
             \/ \E i \in (SignificandBits + 2)..Len(stream) : stream[i] = 1
             \/ frac.rem # 0,
             Len(ibits) - lz)

\* the exact product bits * k of a 53-bit string and 0 < k < 2^12, most
\* significant bit first
MultiplyBits(bits, k) ==
  LET n  == Len(bits)
      lo == NatOfBits(SubSeq(bits, n - ChunkBits + 1, n))
      mi == NatOfBits(SubSeq(bits, n - 2 * ChunkBits + 1, n - ChunkBits))
      hi == NatOfBits(SubSeq(bits, 1, n - 2 * ChunkBits))
      p0 == lo * k
      p1 == mi * k + p0 \div (2 ^ ChunkBits)
      p2 == hi * k + p1 \div (2 ^ ChunkBits)
  IN  BitsOfNat(p2) \o FixedBits(p1 % (2 ^ ChunkBits), ChunkBits)
        \o FixedBits(p0 % (2 ^ ChunkBits), ChunkBits)

\* the Number x * k for a Number x >= 0 and an integer 0 < k < 2^12
JsMultiply(x, k) ==
  IF x = JsZero THEN JsZero
  ELSE LET prod == MultiplyBits(x.bits, k)
           n    == Len(prod)
       IN  RoundNearestEven(
             SubSeq(prod, 1, SignificandBits),
             IF n > SignificandBits THEN prod[SignificandBits + 1] ELSE 0,
             \E i \in (SignificandBits + 2)..n : prod[i] = 1,
             x.pexp + (n - SignificandBits))

\* Math.round of a Number x >= 0 (below 2^30): halves go up
JsRound(x) ==
  IF x = JsZero \/ x.pexp < 0 THEN 0
  ELSE NatOfBits(SubSeq(x.bits, 1, x.pexp)) + x.bits[x.pexp + 1]

----------------------------------------------------------------------------
(* analyzeKeywordUsage (blogAIService.ts), lines 911-931: treatment gaps    *)
(* and content gap rate                                                    *)

\* NaN, the result of 0 / 0 and of Math.round and Math.min on it; it is
\* written -1, which no Number these statistics compute equals (none of
\* them is negative)
JsNaN == -1

\* Array.prototype.find of line 916 (<< >> when nothing is found)
FindMatch(tms, treatment) ==
  IF \E i \in DOMAIN tms : tms[i].treatment = treatment
    THEN <<tms[CHOOSE i \in DOMAIN tms :
                 /\ tms[i].treatment = treatment
                 /\ \A m \in 1..(i - 1) : tms[m].treatment # treatment]>>
    ELSE << >>

\* line 917
CurrentCount(tms, treatment) ==
  LET match == FindMatch(tms, treatment)
  IN  IF match # << >> THEN match[1].frequency ELSE 0

\* variant: only a treatment without any post is a gap
IsGap_ZeroOnly(currentCount) == currentCount < 1

\* line 919: a treatment needs 2 posts for good coverage
IsGap(currentCount) == currentCount < 2

\* lines 915-928
RECURSIVE TreatmentGaps(_, _)
TreatmentGaps(ts, tms) ==
  IF Len(ts) = 0 THEN << >>
  ELSE LET currentCount == CurrentCount(tms, ts[1])
       IN  (IF IsGap(currentCount)
              THEN << [treatment |-> ts[1],
                       current_post_count |-> currentCount,
                       gap_level |-> IF currentCount = 0 THEN "high" ELSE "medium",
                       priority |-> IF currentCount = 0 THEN 10 ELSE 5] >>
              ELSE << >>)
           \o TreatmentGaps(Tail(ts), tms)

\* line 931: Math.round((treatmentGaps.length / treatments.length) * 100)
ContentGapRate(gapCount, treatmentCount) ==
  IF treatmentCount = 0 THEN JsNaN
  ELSE JsRound(JsMultiply(JsDivide(gapCount, treatmentCount), 100))

\* lines 894-909: every keyword is added once per post, so the set stays
\* empty when there is no post
AllKeywords(posts, keywords) ==
  IF Len(posts) = 0 THEN {} ELSE {keywords[i] : i \in DOMAIN keywords}

\* Math.min(a, b): NaN when either argument is NaN
JsMin(a, b) == IF a = JsNaN \/ b = JsNaN THEN JsNaN ELSE IF a <= b THEN a ELSE b

\* line 934: Math.min(100, Math.round((allKeywords.size / posts.length) * 100))
\* (size > 0 implies length > 0, so the only division by zero is 0 / 0)
KeywordDiversityIndex(keywordCount, postCount) ==
  JsMin(100, IF postCount = 0 THEN JsNaN
             ELSE JsRound(JsMultiply(JsDivide(keywordCount, postCount), 100)))

\* the words of `${post.title.rendered} ${strippedContent}`, lines 898-899,
\* of each corpus entry, lower-cased as the flag i of the RegExp ignores case
FreqWordsTable ==
  [i \in 1..CorpusSize |->
     LET strippedContent == ToLowerCase(stripHtmlTags(Corpus[i].content))
         words == MatchWords(Corpus[i].title \o <<" ">> \o strippedContent)
     IN  [n \in DOMAIN words |-> ToLowerCase(words[n])]]

\* lines 902-903: the number of matches of /\bkeyword\b/gi in a post, for a
\* keyword of word characters: the words equal to it but for case
CountMatches(keyword, post) ==
  LET words == FreqWordsTable[CorpusIndex(post)]
  IN  Cardinality({n \in DOMAIN words : words[n] = ToLowerCase(keyword)})

RECURSIVE TotalMatches(_, _)
TotalMatches(keyword, posts) ==
  IF Len(posts) = 0 THEN 0
  ELSE CountMatches(keyword, posts[1]) + TotalMatches(keyword, Tail(posts))

\* lines 893-909: keywordFreq has an entry for the keywords with a match
KeywordFreq(posts, keywords) ==
  [keyword \in {k \in {keywords[i] : i \in DOMAIN keywords} :
                  TotalMatches(k, posts) > 0}
     |-> TotalMatches(keyword, posts)]

\* lines 890, 938: the models by index (PRIMARY_MODEL, BACKUP_MODEL) and the
\* attempts a model gets
PRIMARY_MODEL == 1
BACKUP_MODEL  == 2
MAX_RETRIES_OneMore == 3 + 1
MAX_RETRIES == 3

\* analyzeKeywordUsage(blogData, treatments), lines 886-988: up to the first
\* completion call
AnalyzeKeywordUsageCall(bd, ts) ==
  /\ apc \in {"idle", "done"}
  /\ gapTreatments' = ts
  /\ gapMatches' = bd.treatmentMatches
  /\ gapPosts' = bd.posts
  /\ gapKeywords' = bd.keywords
  /\ keywordFreq' = KeywordFreq(bd.posts, bd.keywords)
  /\ treatmentGaps' = TreatmentGaps(ts, bd.treatmentMatches)
  /\ contentGapRate' =
       ContentGapRate(Len(TreatmentGaps(ts, bd.treatmentMatches)), Len(ts))
  /\ keywordDiversityIndex' =
       KeywordDiversityIndex(Cardinality(AllKeywords(bd.posts, bd.keywords)),
                             Len(bd.posts))
  /\ apc' = "calling"
  /\ aiModel' = PRIMARY_MODEL
  /\ aiRetryCount' = 0
  /\ aiAttempts' = <<1, 0>>
  /\ aiOutcome' = "pending"
  /\ aiEnding' = "none"
  /\ analysis' = << >>
  /\ UNCHANGED <<svcVars, srcCount, fetchVars, blogVars, otherCalls, matchVars,
               clientVars>>

----------------------------------------------------------------------------
(* analyzeKeywordUsage, lines 936-1129: the completion calls, their retries *)
(* and the fallbacks                                                       *)

Turkey_Suffix   == <<" ", "t", "u", "r", "k", "e", "y">>
Istanbul_Suffix == <<" ", "i", "s", "t", "a", "n", "b", "u", "l">>
Best_Prefix     == <<"b", "e", "s", "t", " ">>
Abroad_Suffix   == <<" ", "a", "b", "r", "o", "a", "d">>
CompleteGuideTo == <<"C", "o", "m", "p", "l", "e", "t", "e", " ", "g", "u", "i", "d", "e", " ", "t", "o", " ">>
InTurkey_Suffix == <<" ", "i", "n", " ", "T", "u", "r", "k", "e", "y">>
CostsInIstanbul == <<" ", "c", "o", "s", "t", "s", " ", "a", "n", "d", " ", "o", "p", "t", "i", "o", "n", "s", " ", "i", "n", " ", "I", "s", "t", "a", "n", "b", "u", "l">>
WhyTurkeyIsBest == <<"W", "h", "y", " ", "T", "u", "r", "k", "e", "y", " ", "i", "s", " ", "b", "e", "s", "t", " ", "f", "o", "r", " ">>

\* lines 1085-1110: the three suggestions for one gap
FallbackSuggestions(gap) ==
  << [keyword |-> ToLowerCase(gap.treatment) \o Turkey_Suffix,
      estimated_search_volume |-> "Medium",
      search_intent |-> "Commercial",
      opportunity_score |-> 7,
      current_competition |-> "Medium",
      suggested_content_angle |-> CompleteGuideTo \o gap.treatment \o InTurkey_Suffix],
     [keyword |-> ToLowerCase(gap.treatment) \o Istanbul_Suffix,
      estimated_search_volume |-> "Low",
      search_intent |-> "Transactional",
      opportunity_score |-> 8,
      current_competition |-> "Low",
      suggested_content_angle |-> gap.treatment \o CostsInIstanbul],
     [keyword |-> Best_Prefix \o ToLowerCase(gap.treatment) \o Abroad_Suffix,
      estimated_search_volume |-> "High",
      search_intent |-> "Commercial",
      opportunity_score |-> 9,
      current_competition |-> "High",
      suggested_content_angle |-> WhyTurkeyIsBest \o gap.treatment] >>

\* generateFallbackUKKeywords, lines 1084-1111 (flatMap)
RECURSIVE generateFallbackUKKeywords(_)
generateFallbackUKKeywords(gaps) ==
  IF Len(gaps) = 0 THEN << >>
  ELSE FallbackSuggestions(gaps[1]) \o generateFallbackUKKeywords(Tail(gaps))

\* the KeywordAnalysisData every return statement builds
KeywordAnalysisData(suggestions) ==
  [keyword_frequency_stats |-> keywordFreq,
   treatment_gap_analysis |-> treatmentGaps,
   uk_keyword_suggestions |-> suggestions,
   content_gap_rate |-> contentGapRate,
   keyword_diversity_index |-> keywordDiversityIndex,
   total_posts_analyzed |-> Len(gapPosts)]

\* generateFallbackKeywordAnalysis, lines 1113-1129: the first 3 gaps only
generateFallbackKeywordAnalysis ==
  KeywordAnalysisData(
    generateFallbackUKKeywords(SubSeq(treatmentGaps, 1, Min(3, Len(treatmentGaps)))))

\* the texts a completion can carry, by what they hold once the code fences
\* are removed (line 995): an array of suggestions (bare or fenced), an array
\* of objects of another shape, an empty array, an object, null, or prose
ResponseTexts ==
  {"suggestions", "fenced suggestions", "other items", "empty array",
   "object", "null", "prose"}

WellFormedSuggestions ==
  << [keyword |-> <<"h", "a", "i", "r", " ", "t", "r", "a", "n", "s", "p", "l", "a", "n", "t", " ", "t", "u", "r", "k", "e", "y", " ", "c", "o", "s", "t">>,
      estimated_search_volume |-> "High",
      search_intent |-> "Commercial",
      opportunity_score |-> 9,
      current_competition |-> "Medium",
      suggested_content_angle |-> <<"P", "r", "i", "c", "e", " ", "g", "u", "i", "d", "e">>] >>

OtherItems == << [name |-> <<"h", "a", "i", "r">>] >>

\* JSON.parse of the text without its fences: whether it parses, and what to
JsonParse(text) ==
  CASE text \in {"suggestions", "fenced suggestions"} ->
         [ok |-> TRUE, kind |-> "array", value |-> WellFormedSuggestions]
    [] text = "other items" ->
         [ok |-> TRUE, kind |-> "array", value |-> OtherItems]
    [] text = "empty array" -> [ok |-> TRUE, kind |-> "array", value |-> << >>]
    [] text = "object" -> [ok |-> TRUE, kind |-> "object", value |-> << >>]
    [] text = "null" -> [ok |-> TRUE, kind |-> "null", value |-> << >>]
    [] OTHER -> [ok |-> FALSE, kind |-> "none", value |-> << >>]

\* lines 1000-1006: the response parses into a non-empty array (reading
\* .length of null throws as well)
IsAcceptedAsSuggestions(parsed) ==
  parsed.ok /\ parsed.kind = "array" /\ Len(parsed.value) > 0

\* lines 1021, 1044, 1065
CanRetry(rc) == rc < MAX_RETRIES - 1

\* a completion call of model m is issued (line 988)
IssueCompletion(m, rc) ==
  /\ apc' = "calling"
  /\ aiModel' = m
  /\ aiRetryCount' = rc
  /\ aiAttempts' = [aiAttempts EXCEPT ![m] = @ + 1]
  /\ aiOutcome' = "pending"
  /\ UNCHANGED <<aiEnding, analysis>>

\* a return statement
ReturnAnalysis(data, ending, outcome) ==
  /\ apc' = "done"
  /\ analysis' = data
  /\ aiEnding' = ending
  /\ aiOutcome' = outcome
  /\ UNCHANGED <<aiModel, aiRetryCount, aiAttempts>>

\* await of RETRY_DELAY_MS after retryCount++
StartDelay(pc, outcome) ==
  /\ apc' = pc
  /\ aiRetryCount' = aiRetryCount + 1
  /\ aiOutcome' = outcome
  /\ UNCHANGED <<aiModel, aiAttempts, aiEnding, analysis>>

\* break: lines 1075-1081, the next model with retryCount reset, or the final
\* fallback after the last one
NextModel(outcome) ==
  IF aiModel = PRIMARY_MODEL
    THEN /\ apc' = "calling"
         /\ aiModel' = BACKUP_MODEL
         /\ aiRetryCount' = 0
         /\ aiAttempts' = [aiAttempts EXCEPT ![BACKUP_MODEL] = @ + 1]
         /\ aiOutcome' = "pending"
         /\ UNCHANGED <<aiEnding, analysis>>
    ELSE /\ apc' = "done"
         /\ analysis' = generateFallbackKeywordAnalysis
         /\ aiEnding' = "fallback"
         /\ aiOutcome' = outcome
         /\ aiRetryCount' = 0
         /\ UNCHANGED <<aiModel, aiAttempts>>

\* lines 1052-1071: an error that is not an overload
OtherError(outcome) ==
  IF aiModel = BACKUP_MODEL /\ aiRetryCount >= MAX_RETRIES - 1
    THEN ReturnAnalysis(KeywordAnalysisData(generateFallbackUKKeywords(treatmentGaps)),
                        "fallback", outcome)
    ELSE IF CanRetry(aiRetryCount)
      THEN StartDelay("delayBreak", outcome)
      ELSE NextModel(outcome)

\* the completion call is fulfilled with a response that has a text, lines
\* 993-1037
AiRespond(text) ==
  /\ apc = "calling"
  /\ IF IsAcceptedAsSuggestions(JsonParse(text))
       THEN ReturnAnalysis(KeywordAnalysisData(JsonParse(text).value),
                           "success", text)
       ELSE IF CanRetry(aiRetryCount)
         THEN StartDelay("delayRetry", text)
         ELSE ReturnAnalysis(
                KeywordAnalysisData(generateFallbackUKKeywords(treatmentGaps)),
                "fallback", text)
  /\ UNCHANGED <<svcVars, srcCount, fetchVars, blogVars, otherCalls, matchVars,
                 statVars, clientVars>>

\* the completion call is fulfilled with a response without text: line 995
\* throws a TypeError, which the outer catch gets (lines 1039-1071)
AiRespondNoText ==
  /\ apc = "calling"
  /\ OtherError("no text")
  /\ UNCHANGED <<svcVars, srcCount, fetchVars, blogVars, otherCalls, matchVars,
                 statVars, clientVars>>

\* the completion call is rejected with an overload (code 503, status
\* UNAVAILABLE or a message with 'overloaded'), lines 1043-1051
AiRejectOverloaded ==
  /\ apc = "calling"
  /\ IF CanRetry(aiRetryCount)
       THEN StartDelay("delayRetry", "overloaded")
       ELSE NextModel("overloaded")
  /\ UNCHANGED <<svcVars, srcCount, fetchVars, blogVars, otherCalls, matchVars,
                 statVars, clientVars>>

\* the completion call is rejected with another error, lines 1052-1071
AiRejectOther ==
  /\ apc = "calling"
  /\ OtherError("error")
  /\ UNCHANGED <<svcVars, srcCount, fetchVars, blogVars, otherCalls, matchVars,
                 statVars, clientVars>>

\* the delay of lines 1024 and 1047 is over: the while loop calls again
AiRetryDelayElapsed ==
  /\ apc = "delayRetry"
  /\ IF aiRetryCount < MAX_RETRIES
       THEN IssueCompletion(aiModel, aiRetryCount)
       ELSE NextModel(aiOutcome)
  /\ UNCHANGED <<svcVars, srcCount, fetchVars, blogVars, otherCalls, matchVars,
                 statVars, clientVars>>

\* the delay of line 1068 is over: break
AiBreakDelayElapsed ==
  /\ apc = "delayBreak"
  /\ NextModel(aiOutcome)
  /\ UNCHANGED <<svcVars, srcCount, fetchVars, blogVars, otherCalls, matchVars,
                 statVars, clientVars>>

\* the completion service answers every call at once with suggestions
AiHealthy == \E text \in {"suggestions", "fenced suggestions"} : AiRespond(text)

----------------------------------------------------------------------------
(* analyzePostSEO, blogAIService.ts lines 261-353. The title, content and  *)
(* excerpt only go into the prompt and into the fallback analysis, which   *)
(* is represented by where it comes from.                                  *)

\* the texts a completion can carry: an object of the shape of
\* SEOScoreAnalysis (bare or fenced), an object of another shape, an array,
\* null, or prose
SeoResponseTexts ==
  {"analysis", "fenced analysis", "other object", "array", "null", "prose"}

SEOScoreAnalysisFields ==
  {"score", "contentQuality", "keywordOptimization", "technicalSEO",
   "engagement", "readability"}

\* JSON.parse of the text without its fences (lines 331-334): whether it
\* parses, the kind of value and the fields of an object
SeoJsonParse(text) ==
  CASE text \in {"analysis", "fenced analysis"} ->
         [ok |-> TRUE, kind |-> "object", fields |-> SEOScoreAnalysisFields]
    [] text = "other object" ->
         [ok |-> TRUE, kind |-> "object", fields |-> {"result"}]
    [] text = "array" -> [ok |-> TRUE, kind |-> "array", fields |-> {}]
    [] text = "null" -> [ok |-> TRUE, kind |-> "null", fields |-> {}]
    [] OTHER -> [ok |-> FALSE, kind |-> "none", fields |-> {}]

\* generateFallbackSEOAnalysis(title, content, excerpt)
generateFallbackSEOAnalysis ==
  [from |-> "generateFallbackSEOAnalysis", kind |-> "object",
   fields |-> SEOScoreAnalysisFields]

\* lines 261-328: up to the completion call of the first model
AnalyzePostSEOCall ==
  /\ seoPc \in {"idle", "done"}
  /\ seoPc' = "calling"
  /\ seoModel' = PRIMARY_MODEL
  /\ seoOutcome' = "pending"
  /\ seoResult' = << >>
  /\ UNCHANGED <<ingestVars, chatVars, authVars, lateVars>>

\* lines 343-352: the catch of the loop body
SeoCatch(outcome) ==
  IF seoModel = BACKUP_MODEL
    THEN /\ seoPc' = "done"
         /\ seoResult' = generateFallbackSEOAnalysis
         /\ seoOutcome' = outcome
         /\ UNCHANGED seoModel
    ELSE /\ seoPc' = "calling"
         /\ seoModel' = BACKUP_MODEL
         /\ seoOutcome' = "pending"
         /\ UNCHANGED seoResult

\* lines 331-341: the call is fulfilled with a response that has a text
SeoRespond(text) ==
  /\ seoPc = "calling"
  /\ seoPc' = "done"
  /\ seoOutcome' = text
  /\ seoResult' =
       IF SeoJsonParse(text).ok
         THEN [from |-> "JSON.parse", kind |-> SeoJsonParse(text).kind,
               fields |-> SeoJsonParse(text).fields]
         ELSE generateFallbackSEOAnalysis
  /\ UNCHANGED seoModel
  /\ UNCHANGED <<ingestVars, chatVars, authVars, lateVars>>

\* the call is fulfilled with a response without text: line 331 throws
SeoRespondNoText ==
  /\ seoPc = "calling"
  /\ SeoCatch("no text")
  /\ UNCHANGED <<ingestVars, chatVars, authVars, lateVars>>

\* the call is rejected
SeoReject ==
  /\ seoPc = "calling"
  /\ SeoCatch("error")
  /\ UNCHANGED <<ingestVars, chatVars, authVars, lateVars>>

----------------------------------------------------------------------------
(* Calls of analyzeKeywordUsage on lists of up to MaxGapTreatments          *)
(* treatments                                                              *)

DigitChars == <<"0", "1", "2", "3", "4", "5", "6", "7", "8", "9">>

\* decimal digits of n
RECURSIVE Decimal(_)
Decimal(n) ==
  IF n < 10 THEN <<DigitChars[n + 1]>>
  ELSE Decimal(n \div 10) \o <<DigitChars[(n % 10) + 1]>>

\* the name of the i-th treatment of an argument list: "T<i> in Turkey"
GapTreatmentName(i) == <<"T">> \o Decimal(i) \o InTurkey

\* a treatments argument of n treatments
GapTreatmentsArg(n) == [i \in 1..n |-> GapTreatmentName(i)]

\* blogData.treatmentMatches for it: the first c treatments are covered by
\* 2 or 3 posts, the others have one post, none, or no entry at all
GapMatchesArg(n, c) ==
  LET entry(i) == [treatment |-> GapTreatmentName(i),
                   frequency |-> IF i <= c THEN 2 + (i % 2)
                                 ELSE IF i % 3 = 1 THEN 0 ELSE 1]
      RECURSIVE Entries(_)
      Entries(i) ==
        IF i > n THEN << >>
        ELSE (IF i > c /\ i % 3 = 0 THEN << >> ELSE <<entry(i)>>) \o Entries(i + 1)
  IN  Entries(1)

InitGap == Init /\ srcCount = 0

\* number of treatments the latest call found covered
CoveredCount ==
  Cardinality({i \in DOMAIN gapMatches : gapMatches[i].frequency >= 2})

\* a call on an empty list, or on a list one treatment longer than the
\* latest one, with the same number of covered treatments or one more
NextGap ==
  \/ \E n \in {0, Len(gapTreatments) + 1} :
       \E c \in {CoveredCount, CoveredCount + 1} :
         /\ n <= MaxGapTreatments
         /\ c <= n
         /\ AnalyzeKeywordUsageCall([posts |-> << >>, keywords |-> << >>,
                                     treatmentMatches |-> GapMatchesArg(n, c)],
                                    GapTreatmentsArg(n))
  \/ AiHealthy

SpecGap == InitGap /\ [][NextGap]_vars

\* round(x / y) for integers x >= 0, y > 0, halves going up
RoundedQuotient(x, y) == (2 * x + y) \div (2 * y)

\* the frequency the claim counts for a treatment: 0 when it has no entry
CountedFrequency(tms, treatment) ==
  IF \E i \in DOMAIN tms : tms[i].treatment = treatment
    THEN tms[CHOOSE i \in DOMAIN tms : tms[i].treatment = treatment].frequency
    ELSE 0

\* C10: for a non-empty treatments list, content_gap_rate is an integer in
\* 0..100 and equals round(100 * G / T), T the number of treatments and G
\* the number of them whose match frequency (0 when absent) is below 2.
C10_GapRateRounded ==
  Len(gapTreatments) > 0 =>
    LET G == Cardinality({i \in DOMAIN gapTreatments :
                            CountedFrequency(gapMatches, gapTreatments[i]) < 2})
    IN  /\ contentGapRate \in 0..100
        /\ contentGapRate = RoundedQuotient(100 * G, Len(gapTreatments))

----------------------------------------------------------------------------
(* Calls of analyzeKeywordUsage on blog data of up to MaxDivPosts posts and *)
(* MaxDivKeywords keywords                                                  *)

\* the posts of a blogData argument: the first n posts of an origin
DivPostsArg(n) == [i \in 1..n |-> [site |-> UrlA, id |-> i]]

\* the i-th keyword of a blogData argument: "word<i>"
DivKeywordName(i) == <<"w", "o", "r", "d">> \o Decimal(i)

\* the keywords of a blogData argument: k distinct ones; extractKeywords
\* returns none for no posts
DivKeywordsArg(k) == [i \in 1..k |-> DivKeywordName(i)]

InitDiversity == Init /\ srcCount = 0

\* a call on blog data with one more post, or one more keyword, than the
\* latest call, or on empty blog data
NextDiversity ==
  \/ \E n \in {0, Len(gapPosts), Len(gapPosts) + 1} :
       \E k \in {Len(gapKeywords), Len(gapKeywords) + 1} :
         /\ n <= MaxDivPosts
         /\ k <= MaxDivKeywords
         /\ n = 0 => k = 0
         /\ AnalyzeKeywordUsageCall([posts |-> DivPostsArg(n),
                                     keywords |-> DivKeywordsArg(IF n = 0 THEN 0 ELSE k),
                                     treatmentMatches |-> << >>],
                                    <<T_Hair, T_Rhino>>)
  \/ AiHealthy

SpecDiversity == InitDiversity /\ [][NextDiversity]_vars

\* C11: keyword_diversity_index is an integer in 0..100, equal to
\* min(100, round(100 * uniqueKeywordCount / postCount)) when there are
\* posts and to 0 when there are none.
C11_DiversityIndex ==
  gapTreatments # << >> =>
    LET K == Cardinality({gapKeywords[i] : i \in DOMAIN gapKeywords})
        P == Len(gapPosts)
    IN  /\ keywordDiversityIndex \in 0..100
        /\ P > 0 => keywordDiversityIndex = Min(100, RoundedQuotient(100 * K, P))
        /\ P = 0 => keywordDiversityIndex = 0

----------------------------------------------------------------------------
(* Calls of stripHtmlTags on strings of up to MaxHtmlLen characters, and on *)
(* its own results                                                         *)

\* '<', '>', '&', '#', ';', a letter, a digit and a whitespace character
HtmlAlphabet == {"<", ">", "&", "#", ";", "a", "1", " "}

\* the characters entities are made of
EntityAlphabet == {"&", "#", ";", "a", "1"}

\* stripHtmlTags(html) called with a fresh argument
StripHtmlTagsCall(html) ==
  /\ stripArg' = html
  /\ stripResults' = <<stripHtmlTags(html)>>
  /\ UNCHANGED <<svcVars, srcCount, fetchVars, blogVars, otherCalls, matchVars,
                 gapVars, extractVars, restVars>>

\* stripHtmlTags called with the result of the latest call
StripHtmlTagsAgain ==
  /\ Len(stripResults) = 1
  /\ stripResults' = Append(stripResults, stripHtmlTags(stripResults[1]))
  /\ UNCHANGED <<svcVars, srcCount, fetchVars, blogVars, otherCalls, matchVars,
                 gapVars, stripArg, extractVars, restVars>>

InitStrip == Init /\ srcCount = 0

\* the arguments tried: the latest one and one more character, up to
\* MaxHtmlLen characters, or MaxEntityLen when all are entity characters
NextStrip ==
  \/ \E c \in HtmlAlphabet :
       /\ \/ Len(stripArg) < MaxHtmlLen
          \/ /\ Len(stripArg) < MaxEntityLen
             /\ \A i \in 1..(Len(stripArg) + 1) :
                  Append(stripArg, c)[i] \in EntityAlphabet
       /\ StripHtmlTagsCall(Append(stripArg, c))
  \/ StripHtmlTagsAgain

SpecStrip == InitStrip /\ [][NextStrip]_vars

\* s has a complete entity of the forms stripHtmlTags removes at position i:
\* &letters; or &#digits; (&nbsp; is of the first form)
CompleteEntityAt(s, i) ==
  /\ s[i] = "&"
  /\ \/ LET k == RunLength(s, i + 1, "letter")
        IN  k >= 1 /\ i + 1 + k <= Len(s) /\ s[i + 1 + k] = ";"
     \/ /\ i + 1 <= Len(s)
        /\ s[i + 1] = "#"
        /\ LET k == RunLength(s, i + 2, "digit")
           IN  k >= 1 /\ i + 2 + k <= Len(s) /\ s[i + 2 + k] = ";"

\* s has a partially-formed entity at position i: an '&' followed by a
\* letter or '#', so that an entity has begun, that is not a complete entity
PartialEntityAt(s, i) ==
  /\ s[i] = "&"
  /\ i + 1 <= Len(s)
  /\ IsLetter(s[i + 1]) \/ s[i + 1] = "#"
  /\ ~CompleteEntityAt(s, i)

NoPartialEntities(s) == \A i \in DOMAIN s : ~PartialEntityAt(s, i)

\* C13: stripHtmlTags(stripHtmlTags(x)) = stripHtmlTags(x) for every string x
\* that has no partially-formed entity.
C13_Idempotent ==
  (Len(stripResults) = 2 /\ NoPartialEntities(stripArg))
    => stripResults[2] = stripResults[1]

\* every '&' of s begins a complete entity
EveryAmpersandAnEntity(s) ==
  \A i \in DOMAIN s : s[i] = "&" => CompleteEntityAt(s, i)

\* C13 as amended: stripHtmlTags(stripHtmlTags(x)) = stripHtmlTags(x) for
\* every string x in which every '&' begins a complete entity.
C13_IdempotentOnEntities ==
  (Len(stripResults) = 2 /\ EveryAmpersandAnEntity(stripArg))
    => stripResults[2] = stripResults[1]

\* C13 (amended): a call on a string made of entities only, or with text
\* and an entity, has been repeated on its result, which was not empty
C13_Witness ==
  /\ Len(stripResults) = 2
  /\ EveryAmpersandAnEntity(stripArg)
  /\ \E i \in DOMAIN stripArg : CompleteEntityAt(stripArg, i)
  /\ stripResults[1] # EmptyStr
  /\ stripResults[1] # stripArg

----------------------------------------------------------------------------
(* Direct calls of extractKeywords *)

\* extractKeywords(posts), lines 493-514
ExtractKeywordsCall(posts) ==
  /\ Len(posts) <= MaxPosts
  /\ extractArg' = posts
  /\ extractedKeywords' = extractKeywords(posts)
  /\ UNCHANGED <<svcVars, srcCount, fetchVars, blogVars, otherCalls, matchVars,
                 gapVars, stripVars, restVars>>

InitExtract == Init /\ srcCount = CorpusSize

\* the posts arguments tried next: none, or the latest ones and one more post
NextExtract ==
  \E posts \in {<< >>} \cup {Append(extractArg, p) : p \in OriginPosts} :
    ExtractKeywordsCall(posts)

SpecExtract == InitExtract /\ [][NextExtract]_vars

\* w is a word token of s: a run of word characters with none before or after
IsWordTokenOf(w, s) ==
  \E i \in DOMAIN s :
    /\ Len(w) >= 1
    /\ OccursAt(s, w, i)
    /\ \A j \in DOMAIN w : IsWordChar(w[j])
    /\ i = 1 \/ ~IsWordChar(s[i - 1])
    /\ i + Len(w) > Len(s) \/ ~IsWordChar(s[i + Len(w)])

\* every piece of a text: the candidates for a word token
Pieces(s) == {SubSeq(s, i, j) : i \in DOMAIN s, j \in DOMAIN s}

WordTokensOf(s) == {w \in Pieces(s) : IsWordTokenOf(w, s)}

\* the word tokens of the lower-cased title, and of the lower-cased
\* normalized content, of each corpus entry
TitleTokens ==
  [i \in 1..CorpusSize |-> WordTokensOf(ToLowerCase(Corpus[i].title))]
ContentTokens ==
  [i \in 1..CorpusSize |->
     WordTokensOf(ToLowerCase(stripHtmlTags(Corpus[i].content)))]

\* C14: extractKeywords returns a duplicate-free array in ascending
\* lexicographic order, without elements of length <= 3 or from the stop-word
\* list, that has every other lower-cased word token of the titles and the
\* normalized contents of the posts.
C14_SortedFilteredComplete ==
  /\ \A i, j \in DOMAIN extractedKeywords : i < j => StringLess(extractedKeywords[i], extractedKeywords[j])
  /\ \A i \in DOMAIN extractedKeywords :
       Len(extractedKeywords[i]) > 3 /\ ~IncludesElement(stopWords, extractedKeywords[i])
  /\ \A n \in DOMAIN extractArg :
       \A w \in TitleTokens[CorpusIndex(extractArg[n])]
                \cup ContentTokens[CorpusIndex(extractArg[n])] :
         (Len(w) > 3 /\ ~IncludesElement(stopWords, w))
           => IncludesElement(extractedKeywords, w)

\* C14: a call on posts that share words and have short words and stop words
\* longer than 3 characters
C14_Witness ==
  /\ Len(extractArg) >= 2
  /\ \E n \in DOMAIN extractArg :
       <<"w", "i", "t", "h">> \in TitleTokens[CorpusIndex(extractArg[n])]
  /\ \E m, n \in DOMAIN extractArg :
       /\ m < n
       /\ <<"c", "o", "s", "t", "s">> \in ContentTokens[CorpusIndex(extractArg[m])]
       /\ <<"c", "o", "s", "t", "s">> \in ContentTokens[CorpusIndex(extractArg[n])]
  /\ Len(extractedKeywords) >= 5

----------------------------------------------------------------------------
(* The pipeline of fetchAndAnalyzeData (KeywordAnalyzerView.tsx, lines      *)
(* 51-58) on the posts fetchAllPosts has returned: getBlogData builds the   *)
(* blog data (lines 599-607), analyzeKeywordUsage gets it with the same     *)
(* treatments that were set on the service                                 *)

AnalyzeFetchedPosts(posts) ==
  /\ fpc = "idle"
  /\ gpc = "idle"
  /\ treatments # << >>
  /\ Len(posts) <= MaxPosts
  /\ AnalyzeKeywordUsageCall(BlogDataOf(posts, << >>, treatments), treatments)

\* the origin holds the first 5 posts of the corpus
InitPipeline == Init /\ srcCount = 5

NextPipeline ==
  \/ \E ts \in TreatmentLists : OwnSetTreatments(ts)
  \/ \E posts \in {<< >>} \cup {Append(gapPosts, p) : p \in OriginPosts} :
       AnalyzeFetchedPosts(posts)
  \/ AiHealthy

SpecPipeline == InitPipeline /\ [][NextPipeline]_vars

\* the posts of the latest run that match a treatment, and those that match
\* it by their title
PostsMatching(treatment) ==
  {i \in DOMAIN gapPosts : PostMatches(treatment, gapPosts[i])}

MatchesByTitle(treatment, post) ==
  /\ PostMatches(treatment, post)
  /\ TitleHasSpecificKeyword(ToLowerCase(stripHtmlTags(TitleRendered(post))),
                             TreatmentKeywords(treatment))

\* the case of C12: 3 posts, exactly one of them matches Hair Transplant in
\* Turkey, by its title, none matches Rhinoplasty in Turkey, and these two
\* treatments are configured
OneHairPostOfThree ==
  /\ Len(gapPosts) = 3
  /\ gapTreatments = <<T_Hair, T_Rhino>>
  /\ Cardinality(PostsMatching(T_Hair)) = 1
  /\ \A i \in PostsMatching(T_Hair) : MatchesByTitle(T_Hair, gapPosts[i])
  /\ PostsMatching(T_Rhino) = {}

\* C12: in that case the pipeline yields Hair Transplant frequency >= 1,
\* Rhinoplasty frequency 0 and contentGapRate = 50.
C12_GapRateFifty ==
  OneHairPostOfThree =>
    /\ FrequencyOf(gapMatches, T_Hair) >= 1
    /\ FrequencyOf(gapMatches, T_Rhino) = 0
    /\ contentGapRate = 50

\* C12 as amended: in that case the pipeline yields Hair Transplant frequency
\* 1, Rhinoplasty frequency 0 and contentGapRate = 100, both treatments
\* being below 2 posts.
C12_GapRateHundred ==
  OneHairPostOfThree =>
    /\ FrequencyOf(gapMatches, T_Hair) = 1
    /\ FrequencyOf(gapMatches, T_Rhino) = 0
    /\ Len(treatmentGaps) = 2
    /\ contentGapRate = 100

C12_Witness ==
  /\ OneHairPostOfThree
  /\ \E i \in DOMAIN gapPosts : ~PostMatches(T_Hair, gapPosts[i])
  /\ contentGapRate = 100

----------------------------------------------------------------------------
(* The completion calls of analyzeKeywordUsage and analyzePostSEO under    *)
(* every outcome: responses of every kind, overloads and other errors      *)

\* the arguments of the calls: five treatments none of which is covered and
\* no posts, or the treatments of the service and the first post
AiCallArgs ==
  { [bd |-> [posts |-> << >>, keywords |-> << >>,
             treatmentMatches |-> GapMatchesArg(5, 0)],
     ts |-> GapTreatmentsArg(5)],
    [bd |-> BlogDataOf(<<[site |-> baseUrl, id |-> 1]>>, << >>, <<T_Hair, T_Rhino>>),
     ts |-> <<T_Hair, T_Rhino>>] }

InitAi == Init /\ srcCount = CorpusSize

\* the steps that follow a call of analyzeKeywordUsage: the completion call
\* is settled, or a delay is over
AiSettle ==
  \/ \E text \in ResponseTexts : AiRespond(text)
  \/ AiRespondNoText
  \/ AiRejectOverloaded
  \/ AiRejectOther
  \/ AiRetryDelayElapsed
  \/ AiBreakDelayElapsed

NextAi ==
  \/ \E a \in AiCallArgs : AnalyzeKeywordUsageCall(a.bd, a.ts)
  \/ AiSettle
  \/ AnalyzePostSEOCall
  \/ \E text \in SeoResponseTexts : SeoRespond(text)
  \/ SeoRespondNoText
  \/ SeoReject

SpecAi == InitAi /\ [][NextAi]_vars

\* every completion call is settled and every delay ends
FairSpecAi == SpecAi /\ WF_vars(AiSettle)

\* C15: in analyzeKeywordUsage the backup model is called only after the
\* primary model has been attempted 3 times, and the local fallback is used
\* only after the backup model has been attempted 3 times as well: a failed
\* attempt of any kind is followed by another attempt with the same model
\* until the model has had 3
C15_RetryThenBackup ==
  /\ aiAttempts[BACKUP_MODEL] > 0 => aiAttempts[PRIMARY_MODEL] = MAX_RETRIES
  /\ aiEnding = "fallback" => aiAttempts = <<MAX_RETRIES, MAX_RETRIES>>

\* the suggestions of an ending: those of the response, or those generated
\* for the gaps (all of them, or the first three)
SuggestionsOfEnding ==
  IF aiEnding = "success"
    THEN /\ aiOutcome \in ResponseTexts
         /\ JsonParse(aiOutcome).ok
         /\ analysis.uk_keyword_suggestions = JsonParse(aiOutcome).value
    ELSE analysis.uk_keyword_suggestions \in
           { generateFallbackUKKeywords(treatmentGaps),
             generateFallbackUKKeywords(
               SubSeq(treatmentGaps, 1, Min(3, Len(treatmentGaps)))) }

\* C16: every invocation of analyzeKeywordUsage ends, whatever the errors and
\* malformed responses, and ends with the suggestions of the model (success)
\* or with generated ones (fallback), after at most 3 completion calls per
\* model, 6 in total
C16_EndsInSuccessOrFallback ==
  /\ [](/\ aiAttempts[PRIMARY_MODEL] <= 3
        /\ aiAttempts[BACKUP_MODEL] <= 3
        /\ aiAttempts[PRIMARY_MODEL] + aiAttempts[BACKUP_MODEL] <= 6
        /\ apc = "done" => /\ aiEnding \in {"success", "fallback"}
                           /\ analysis # << >>
                           /\ SuggestionsOfEnding)
  /\ (apc \in {"calling", "delayRetry", "delayBreak"}) ~> (apc = "done")

\* an invocation that ended in the fallback after 3 calls of each model
C16_Witness ==
  /\ apc = "done"
  /\ aiEnding = "fallback"
  /\ aiAttempts = <<3, 3>>
  /\ Len(treatmentGaps) = 5
  /\ Len(analysis.uk_keyword_suggestions) = 9

\* an array all of whose items have the fields of UKKeywordSuggestion
IsSuggestionList(parsed) ==
  /\ parsed.ok
  /\ parsed.kind = "array"
  /\ \A i \in DOMAIN parsed.value :
       DOMAIN parsed.value[i] =
         {"keyword", "estimated_search_volume", "search_intent",
          "opportunity_score", "current_competition", "suggested_content_angle"}

\* an object with the fields of SEOScoreAnalysis
IsSEOScoreAnalysis(parsed) ==
  parsed.ok /\ parsed.kind = "object" /\ parsed.fields = SEOScoreAnalysisFields

\* C17: when the response that ended analyzeKeywordUsage or analyzePostSEO
\* was malformed (not JSON, or JSON of another shape than the one asked for),
\* the caller got the locally generated fallback, not the response
C17_MalformedNeverReturned ==
  /\ (apc = "done" /\ aiOutcome \in ResponseTexts
        /\ ~IsSuggestionList(JsonParse(aiOutcome)))
       => aiEnding = "fallback"
  /\ (seoPc = "done" /\ seoOutcome \in SeoResponseTexts
        /\ ~IsSEOScoreAnalysis(SeoJsonParse(seoOutcome)))
       => seoResult = generateFallbackSEOAnalysis

----------------------------------------------------------------------------
(* ChatProvider.sendMessage, src/unnamed/part_004 lines 214-465: the race  *)
(* of the response stream against the timeout. One message is followed:    *)
(* the one with id aiMessageId of the latest sendMessage.                  *)

MaxChunks == 3

\* the chunks the stream yields
Chunks == {EmptyStr, <<"a">>, <<"b", "c">>}

\* the message property of the errors of the catch of line 428
Err_Timeout    == <<"R", "e", "s", "p", "o", "n", "s", "e", " ", "t", "i", "m", "e", "o", "u", "t">>
Err_NoResponse == <<"N", "o", " ", "r", "e", "s", "p", "o", "n", "s", "e", " ", "r", "e", "c", "e", "i", "v", "e", "d", " ", "f", "r", "o", "m", " ", "A", "I">>
Err_Fetch      == <<"F", "a", "i", "l", "e", "d", " ", "t", "o", " ", "f", "e", "t", "c", "h">>
Err_Other      == <<"s", "t", "r", "e", "a", "m", " ", "c", "l", "o", "s", "e", "d">>

Str_timeout        == <<"t", "i", "m", "e", "o", "u", "t">>
Str_NoResponse     == <<"N", "o", " ", "r", "e", "s", "p", "o", "n", "s", "e", " ", "r", "e", "c", "e", "i", "v", "e", "d">>
Str_FailedToFetch  == <<"F", "a", "i", "l", "e", "d", " ", "t", "o", " ", "f", "e", "t", "c", "h">>

Msg_Generic          == <<"I", "'", "m", " ", "s", "o", "r", "r", "y", ",", " ", "I", " ", "e", "n", "c", "o", "u", "n", "t", "e", "r", "e", "d", " ", "a", "n", " ", "e", "r", "r", "o", "r", " ", "w", "h", "i", "l", "e", " ", "p", "r", "o", "c", "e", "s", "s", "i", "n", "g", " ", "y", "o", "u", "r", " ", "r", "e", "q", "u", "e", "s", "t", ".">>
Msg_TimeoutSafari    == <<"R", "e", "s", "p", "o", "n", "s", "e", " ", "t", "i", "m", "e", "d", " ", "o", "u", "t", ".", " ", "S", "a", "f", "a", "r", "i", " ", "m", "a", "y", " ", "h", "a", "v", "e", " ", "c", "o", "n", "n", "e", "c", "t", "i", "v", "i", "t", "y", " ", "i", "s", "s", "u", "e", "s", ".", " ", "P", "l", "e", "a", "s", "e", " ", "t", "r", "y", " ", "a", "g", "a", "i", "n", ".">>
Msg_Timeout          == <<"R", "e", "s", "p", "o", "n", "s", "e", " ", "t", "i", "m", "e", "d", " ", "o", "u", "t", ".", " ", "P", "l", "e", "a", "s", "e", " ", "t", "r", "y", " ", "a", "g", "a", "i", "n", ".">>
Msg_ConnectionSafari == <<"C", "o", "n", "n", "e", "c", "t", "i", "o", "n", " ", "i", "s", "s", "u", "e", " ", "w", "i", "t", "h", " ", "S", "a", "f", "a", "r", "i", ".", " ", "P", "l", "e", "a", "s", "e", " ", "c", "h", "e", "c", "k", " ", "y", "o", "u", "r", " ", "i", "n", "t", "e", "r", "n", "e", "t", " ", "a", "n", "d", " ", "t", "r", "y", " ", "a", "g", "a", "i", "n", ".">>
Msg_Connection       == <<"C", "o", "n", "n", "e", "c", "t", "i", "o", "n", " ", "i", "s", "s", "u", "e", ".", " ", "P", "l", "e", "a", "s", "e", " ", "c", "h", "e", "c", "k", " ", "y", "o", "u", "r", " ", "i", "n", "t", "e", "r", "n", "e", "t", " ", "a", "n", "d", " ", "t", "r", "y", " ", "a", "g", "a", "i", "n", ".">>
Msg_SafariNetwork    == <<"S", "a", "f", "a", "r", "i", " ", "n", "e", "t", "w", "o", "r", "k", " ", "i", "s", "s", "u", "e", " ", "d", "e", "t", "e", "c", "t", "e", "d", ".", " ", "P", "l", "e", "a", "s", "e", " ", "t", "r", "y", " ", "r", "e", "f", "r", "e", "s", "h", "i", "n", "g", " ", "t", "h", "e", " ", "p", "a", "g", "e", " ", "a", "n", "d", " ", "s", "e", "n", "d", "i", "n", "g", " ", "y", "o", "u", "r", " ", "m", "e", "s", "s", "a", "g", "e", " ", "a", "g", "a", "i", "n", ".">>

\* lines 433-445
ErrorMessage(message, safari) ==
  IF Includes(message, Str_timeout)
    THEN IF safari THEN Msg_TimeoutSafari ELSE Msg_Timeout
  ELSE IF Includes(message, Str_NoResponse)
    THEN IF safari THEN Msg_ConnectionSafari ELSE Msg_Connection
  ELSE IF safari /\ Includes(message, Str_FailedToFetch)
    THEN Msg_SafariNetwork
  ELSE Msg_Generic

\* lines 428-463: the catch and the finally of sendMessage
CatchSendError(message) ==
  /\ aiText' = ErrorMessage(message, isSafari)
  /\ chatPc' = "done"
  /\ isLoading' = FALSE

\* sendMessage(text, file), lines 214-404: up to the await of the race; the
\* placeholder of the AI message has an empty text
SendMessage(safari, title) ==
  /\ chatPc \in {"idle", "done"}
  /\ streamPc # "running"
  /\ chatPc' = "racing"
  /\ streamPc' = "running"
  /\ timerPc' = "armed"
  /\ raceWinner' = "none"
  /\ fullResponse' = EmptyStr
  /\ hasReceivedChunk' = FALSE
  /\ chunkCount' = 0
  /\ isSafari' = safari
  /\ needsTitle' = title
  /\ aiText' = EmptyStr
  /\ convTitle' = IF title THEN "New Conversation" ELSE convTitle
  /\ isLoading' = TRUE
  /\ UNCHANGED <<ingestVars, seoVars, authVars, lateVars>>

\* lines 366-386: the stream yields a chunk; the consumer has no look at the
\* race and writes the text of the message
StreamChunk(chunk) ==
  /\ streamPc = "running"
  /\ chunkCount < MaxChunks
  /\ hasReceivedChunk' = TRUE
  /\ fullResponse' = fullResponse \o chunk
  /\ chunkCount' = chunkCount + 1
  /\ aiText' = fullResponse \o chunk
  /\ UNCHANGED <<chatPc, streamPc, timerPc, raceWinner, isSafari, needsTitle,
                 convTitle, isLoading>>
  /\ UNCHANGED <<ingestVars, seoVars, authVars, lateVars>>

\* lines 388-427: the stream ends; when the race is still on, sendMessage
\* goes on after it
StreamEnd ==
  /\ streamPc = "running"
  /\ streamPc' = "ended"
  /\ IF chatPc = "racing"
       THEN /\ raceWinner' = "stream"
            /\ IF ~hasReceivedChunk
                 THEN CatchSendError(Err_NoResponse)
                 ELSE /\ aiText' = fullResponse
                      /\ IF needsTitle /\ fullResponse # EmptyStr
                           THEN chatPc' = "title" /\ UNCHANGED isLoading
                           ELSE chatPc' = "done" /\ isLoading' = FALSE
       ELSE UNCHANGED <<raceWinner, aiText, chatPc, isLoading>>
  /\ UNCHANGED <<timerPc, fullResponse, hasReceivedChunk, chunkCount, isSafari,
                 needsTitle, convTitle>>
  /\ UNCHANGED <<ingestVars, seoVars, authVars, lateVars>>

\* lines 393-402: the stream throws; the consumer rethrows
StreamFail(message) ==
  /\ streamPc = "running"
  /\ streamPc' = "failed"
  /\ IF chatPc = "racing"
       THEN raceWinner' = "streamError" /\ CatchSendError(message)
       ELSE UNCHANGED <<raceWinner, aiText, chatPc, isLoading>>
  /\ UNCHANGED <<timerPc, fullResponse, hasReceivedChunk, chunkCount, isSafari,
                 needsTitle, convTitle>>
  /\ UNCHANGED <<ingestVars, seoVars, authVars, lateVars>>

\* lines 357-359: the timer of timeoutPromise fires; nothing stops the
\* stream consumer
TimerFires ==
  /\ timerPc = "armed"
  /\ timerPc' = "fired"
  /\ IF chatPc = "racing"
       THEN raceWinner' = "timeout" /\ CatchSendError(Err_Timeout)
       ELSE UNCHANGED <<raceWinner, aiText, chatPc, isLoading>>
  /\ UNCHANGED <<streamPc, fullResponse, hasReceivedChunk, chunkCount, isSafari,
                 needsTitle, convTitle>>
  /\ UNCHANGED <<ingestVars, seoVars, authVars, lateVars>>

\* lines 423-426: generateTitle is fulfilled
TitleFulfilled(newTitle) ==
  /\ chatPc = "title"
  /\ convTitle' = newTitle
  /\ chatPc' = "done"
  /\ isLoading' = FALSE
  /\ UNCHANGED <<streamPc, timerPc, raceWinner, fullResponse, hasReceivedChunk,
                 chunkCount, isSafari, needsTitle, aiText>>
  /\ UNCHANGED <<ingestVars, seoVars, authVars, lateVars>>

\* lines 423-463: generateTitle is rejected
TitleRejected(message) ==
  /\ chatPc = "title"
  /\ CatchSendError(message)
  /\ UNCHANGED <<streamPc, timerPc, raceWinner, fullResponse, hasReceivedChunk,
                 chunkCount, isSafari, needsTitle, convTitle>>
  /\ UNCHANGED <<ingestVars, seoVars, authVars, lateVars>>

InitChat == Init /\ srcCount = 0

NextChat ==
  \/ \E safari \in BOOLEAN : \E title \in BOOLEAN : SendMessage(safari, title)
  \/ \E chunk \in Chunks : StreamChunk(chunk)
  \/ StreamEnd
  \/ \E message \in {Err_Fetch, Err_Other} : StreamFail(message)
  \/ TimerFires
  \/ TitleFulfilled("Generated title")
  \/ \E message \in {Err_Fetch, Err_Other} : TitleRejected(message)

SpecChat == InitChat /\ [][NextChat]_vars

\* C19: once the timeout has won the race of sendMessage, the message of the
\* AI keeps the text of the timeout error: no later chunk of the stream
\* changes the conversation
C19_TimeoutDiscardsStream ==
  raceWinner = "timeout" => aiText = ErrorMessage(Err_Timeout, isSafari)

----------------------------------------------------------------------------
(* GoogleAuthService, src/unnamed/part_002 lines 109-171. Times are in     *)
(* minutes: Date.now(), expiry and the buffer are milliseconds in the code *)
(* and expires_in seconds, converted at line 122.                          *)

MaxNow == 3

\* the callers of ensureValidToken, whose awaits interleave
Callers == {"A", "B"}

\* line 145, line 157: 5 * 60 * 1000 ms
ExpiryBuffer == 5

\* the lifetimes the token endpoint grants
ExpiresIn == {6, 8}

Err_NoStoredTokens == "No stored tokens found"
Err_AuthenticationExpired == "Authentication expired. Please re-authenticate."

\* getStoredTokens(), lines 110-118: null (<< >>) without the item
getStoredTokens(storage) == storage.googleAuthTokens

\* storeTokens(accessToken, refreshToken, expiresIn), lines 121-131. An
\* undefined expiresIn gives the expiry NaN, which the item holds as null
storeTokens(accessToken, refreshToken, expiresIn, time) ==
  [googleAuthTokens |->
     <<[accessToken |-> accessToken, refreshToken |-> refreshToken,
        expiry |-> IF expiresIn = JsNaN THEN JsNaN ELSE time + expiresIn]>>,
   searchConsoleToken |-> <<accessToken>>]

\* clearTokens(), lines 134-137
clearTokens_AuthTokensOnly(storage) ==
  [storage EXCEPT !.googleAuthTokens = << >>]

clearTokens(storage) ==
  [googleAuthTokens |-> << >>, searchConsoleToken |-> << >>]

\* lines 145 and 157: Date.now() < (tokens.expiry - 5 * 60 * 1000), false for
\* the expiry null
IsBeforeExpiry(tokens, time) ==
  tokens.expiry # JsNaN /\ time < tokens.expiry - ExpiryBuffer

\* isAuthenticated(), lines 140-146
isAuthenticated ==
  /\ getStoredTokens(localStorage) # << >>
  /\ IsBeforeExpiry(getStoredTokens(localStorage)[1], now)

\* ensureValidToken(), lines 149-163: up to the throw, the return or the
\* refresh request
EnsureValidTokenCall(c) ==
  /\ epc[c] # "refreshing"
  /\ LET tokens == getStoredTokens(localStorage)
     IN  IF tokens = << >>
           THEN /\ epc' = [epc EXCEPT ![c] = "raised"]
                /\ eResult' = [eResult EXCEPT ![c] = Err_NoStoredTokens]
                /\ eRequests' = [eRequests EXCEPT ![c] = 0]
                /\ eTokens' = [eTokens EXCEPT ![c] = << >>]
           ELSE IF IsBeforeExpiry(tokens[1], now)
             THEN /\ epc' = [epc EXCEPT ![c] = "returned"]
                  /\ eResult' = [eResult EXCEPT ![c] = tokens[1].accessToken]
                  /\ eRequests' = [eRequests EXCEPT ![c] = 0]
                  /\ eTokens' = [eTokens EXCEPT ![c] = tokens]
             ELSE /\ epc' = [epc EXCEPT ![c] = "refreshing"]
                  /\ eResult' = [eResult EXCEPT ![c] = "none"]
                  /\ eRequests' = [eRequests EXCEPT ![c] = 1]
                  /\ eTokens' = [eTokens EXCEPT ![c] = tokens]
  /\ UNCHANGED <<localStorage, now>>
  /\ UNCHANGED <<ingestVars, seoVars, chatVars, lateVars>>

\* lines 163-165: refreshAccessToken is fulfilled (lines 72-102); a response
\* without the fields gives undefined for both
RefreshFulfilled(c, accessToken, expiresIn) ==
  /\ epc[c] = "refreshing"
  /\ localStorage' =
       storeTokens(accessToken, eTokens[c][1].refreshToken, expiresIn, now)
  /\ epc' = [epc EXCEPT ![c] = "returned"]
  /\ eResult' = [eResult EXCEPT ![c] = accessToken]
  /\ UNCHANGED <<now, eTokens, eRequests>>
  /\ UNCHANGED <<ingestVars, seoVars, chatVars, lateVars>>

\* lines 166-170: refreshAccessToken is rejected (fetch rejected, status
\* not ok, data.error), or setItem throws
RefreshFailed(c) ==
  /\ epc[c] = "refreshing"
  /\ localStorage' = clearTokens(localStorage)
  /\ epc' = [epc EXCEPT ![c] = "raised"]
  /\ eResult' = [eResult EXCEPT ![c] = Err_AuthenticationExpired]
  /\ UNCHANGED <<now, eTokens, eRequests>>
  /\ UNCHANGED <<ingestVars, seoVars, chatVars, lateVars>>

\* the OAuth callback stores the tokens of the code exchange
StoreTokensCall(expiresIn) ==
  /\ localStorage' = storeTokens("access0", "refresh0", expiresIn, now)
  /\ UNCHANGED <<now, epc, eTokens, eRequests, eResult>>
  /\ UNCHANGED <<ingestVars, seoVars, chatVars, lateVars>>

\* sign-out
ClearTokensCall ==
  /\ localStorage' = clearTokens(localStorage)
  /\ UNCHANGED <<now, epc, eTokens, eRequests, eResult>>
  /\ UNCHANGED <<ingestVars, seoVars, chatVars, lateVars>>

\* a minute passes
Tick ==
  /\ now < MaxNow
  /\ now' = now + 1
  /\ UNCHANGED <<localStorage, epc, eTokens, eRequests, eResult>>
  /\ UNCHANGED <<ingestVars, seoVars, chatVars, lateVars>>

InitAuth == Init /\ srcCount = 0

NextAuth ==
  \/ \E c \in Callers : EnsureValidTokenCall(c)
  \/ \E c \in Callers : \E expiresIn \in ExpiresIn :
       RefreshFulfilled(c, "access1", expiresIn)
  \/ \E c \in Callers : RefreshFulfilled(c, "undefined", JsNaN)
  \/ \E c \in Callers : RefreshFailed(c)
  \/ \E expiresIn \in ExpiresIn : StoreTokensCall(expiresIn)
  \/ ClearTokensCall
  \/ Tick

SpecAuth == InitAuth /\ [][NextAuth]_vars

\* C20: an invocation of ensureValidToken sends at most one refresh request,
\* and none when it raises for want of stored tokens; when the refresh fails
\* it raises the re-authentication error with both items removed from the
\* storage, so that isAuthenticated() is false, and it does not try again
C20_NoRetryOnAuthFailure ==
  /\ [](\A c \in Callers :
          /\ eRequests[c] <= 1
          /\ eResult[c] = Err_NoStoredTokens => eRequests[c] = 0
          /\ epc[c] = "raised" =>
               eResult[c] \in {Err_NoStoredTokens, Err_AuthenticationExpired})
  /\ [][\A c \in Callers :
          epc[c] = "refreshing" /\ epc'[c] # "refreshing"
            => \/ epc'[c] = "returned" /\ UNCHANGED eRequests
               \/ /\ epc'[c] = "raised"
                  /\ eResult'[c] = Err_AuthenticationExpired
                  /\ localStorage' =
                       [googleAuthTokens |-> << >>, searchConsoleToken |-> << >>]
                  /\ ~isAuthenticated'
                  /\ UNCHANGED eRequests]_vars

\* a caller whose refresh failed while the other caller's refresh had stored
\* new tokens
C20_Witness ==
  /\ epc["A"] = "raised"
  /\ eResult["A"] = Err_AuthenticationExpired
  /\ eRequests["A"] = 1
  /\ epc["B"] = "returned"
  /\ eResult["B"] = "access1"
  /\ ~isAuthenticated

----------------------------------------------------------------------------
(* The keys and identifiers of the environment and the components that     *)
(* read them: blogAIService.ts lines 15-22 and 356-361, SerpApiService     *)
(* (src/unnamed/part_003 lines 43-53), createGoogleAuthService             *)
(* (src/unnamed/part_002 lines 175-207)                                    *)

EnvNames ==
  {"VITE_GEMINI_API_KEY", "VITE_SERPAPI_KEY", "VITE_SEARCH_CONSOLE_CLIENT_ID",
   "VITE_SEARCH_CONSOLE_CLIENT_SECRET", "VITE_SEARCH_CONSOLE_REDIRECT_URI",
   "NEXT_PUBLIC_GOOGLE_PAGESPEED_API_KEY"}

\* the build sets or unsets a name, before anything is loaded
SetEnv(name) ==
  /\ config.blogAIService = "unloaded"
  /\ config.serpApiService = "none"
  /\ config.googleAuthService = "none"
  /\ config' = [config EXCEPT !.env = IF name \in @ THEN @ \ {name}
                                      ELSE @ \cup {name}]
  /\ UNCHANGED <<coreVars, dashboard, blogStream, seoScore, calendar, filterCall>>

\* blogAIService.ts lines 15-22: the module is loaded
LoadBlogAIService ==
  /\ config.blogAIService = "unloaded"
  /\ config' = [config EXCEPT !.blogAIService =
                  IF "VITE_GEMINI_API_KEY" \in config.env THEN "loaded"
                  ELSE "raised"]
  /\ UNCHANGED <<coreVars, dashboard, blogStream, seoScore, calendar, filterCall>>

\* new SerpApiService(), part_003 lines 43-53
NewSerpApiService ==
  /\ config' = [config EXCEPT !.serpApiService =
                  IF "VITE_SERPAPI_KEY" \in config.env THEN "constructed"
                  ELSE "raised"]
  /\ UNCHANGED <<coreVars, dashboard, blogStream, seoScore, calendar, filterCall>>

\* createGoogleAuthService(), part_002 lines 175-207
createGoogleAuthService ==
  /\ config' = [config EXCEPT !.googleAuthService =
                  IF /\ "VITE_SEARCH_CONSOLE_CLIENT_ID" \in config.env
                     /\ "VITE_SEARCH_CONSOLE_CLIENT_SECRET" \in config.env
                     /\ "VITE_SEARCH_CONSOLE_REDIRECT_URI" \in config.env
                    THEN "constructed"
                    ELSE "raised"]
  /\ UNCHANGED <<coreVars, dashboard, blogStream, seoScore, calendar, filterCall>>

\* performCoreWebVitalsAnalysis(url), blogAIService.ts lines 356-363: the
\* key of the PageSpeed request is that of the environment || a literal
performCoreWebVitalsAnalysis ==
  /\ config.blogAIService = "loaded"
  /\ config' = [config EXCEPT !.pageSpeedKey =
                  IF "NEXT_PUBLIC_GOOGLE_PAGESPEED_API_KEY" \in config.env
                    THEN "environment"
                    ELSE "literal"]
  /\ UNCHANGED <<coreVars, dashboard, blogStream, seoScore, calendar, filterCall>>

InitConfig == Init /\ srcCount = 0

NextConfig ==
  \/ \E name \in EnvNames : SetEnv(name)
  \/ LoadBlogAIService
  \/ NewSerpApiService
  \/ createGoogleAuthService
  \/ performCoreWebVitalsAnalysis

SpecConfig == InitConfig /\ [][NextConfig]_vars

\* C21: no component runs without its key or identifier: the Gemini module
\* is loaded, the SerpApi and Google OAuth services are constructed and the
\* PageSpeed request is sent only with the value of the environment, never
\* with a value put in its place
C21_FailFast ==
  /\ config.blogAIService = "loaded" => "VITE_GEMINI_API_KEY" \in config.env
  /\ config.serpApiService = "constructed" => "VITE_SERPAPI_KEY" \in config.env
  /\ config.googleAuthService = "constructed" =>
       {"VITE_SEARCH_CONSOLE_CLIENT_ID", "VITE_SEARCH_CONSOLE_CLIENT_SECRET",
        "VITE_SEARCH_CONSOLE_REDIRECT_URI"} \subseteq config.env
  /\ config.pageSpeedKey # "none" =>
       /\ "NEXT_PUBLIC_GOOGLE_PAGESPEED_API_KEY" \in config.env
       /\ config.pageSpeedKey = "environment"

----------------------------------------------------------------------------
(* The filter predicate of analyzeTreatmentMatches (lines 548-580) on one  *)
(* post, for treatments and texts with short words, single words, markup   *)
(* and with and without the locale marker                                  *)

T_Ivf       == <<"I", "V", "F", " ", "i", "n", " ", "T", "u", "r", "k", "e", "y">>
T_TipOfNose == <<"T", "i", "p", " ", "o", "f", " ", "N", "o", "s", "e", " ", "S", "u", "r", "g", "e", "r", "y", " ", "i", "n", " ", "T", "u", "r", "k", "e", "y">>
T_Dental    == <<"D", "e", "n", "t", "a", "l", " ", "i", "n", " ", "T", "u", "r", "k", "e", "y">>

FilterTreatments == {T_Hair, T_Rhino, T_Weight, T_Ivf, T_TipOfNose, T_Dental}

FilterTitles ==
  { Title1, Title3, Title5, Title6,
    <<"I", "V", "F", " ", "c", "l", "i", "n", "i", "c", "s", " ", "i", "n", " ", "T", "u", "r", "k", "e", "y">>,
    <<"T", "i", "p", " ", "o", "f", " ", "n", "o", "s", "e", " ", "s", "u", "r", "g", "e", "r", "y", " ", "i", "n", " ", "T", "u", "r", "k", "e", "y">>,
    <<"N", "o", "s", "e", " ", "s", "u", "r", "g", "e", "r", "y", ":", " ", "t", "h", "e", " ", "t", "i", "p">>,
    <<"<", "b", ">", "D", "e", "n", "t", "a", "l", "<", "/", "b", ">", " ", "c", "a", "r", "e">>,
    <<"N", "e", "w", "s">> }

FilterContents ==
  { Content1, Content2, Content4, Content5, Content6,
    <<"I", "V", "F", " ", "i", "n", " ", "T", "u", "r", "k", "e", "y">>,
    <<"H", "a", "i", "r", " ", "c", "o", "s", "t", "s", " ", "i", "n", " ", "T", "u", "r", "k", "e", "y">>,
    <<"A", " ", "n", "o", "s", "e", " ", "s", "u", "r", "g", "e", "r", "y", " ", "i", "n", " ", "T", "U", "R", "K", "E", "Y">>,
    <<"d", "e", "n", "t", "a", "l", " ", "i", "m", "p", "l", "a", "n", "t", "s">> }

\* the value of the filter predicate on every input, computed once
FilterTable ==
  [treatment \in FilterTreatments |->
    [titleRendered \in FilterTitles |->
      [contentRendered \in FilterContents |->
        TextMatches(treatment, titleRendered, contentRendered)]]]

\* the callback of posts.filter, lines 548-580, on one post
FilterPost(treatment, titleRendered, contentRendered) ==
  /\ filterCall' = [treatment |-> treatment, title |-> titleRendered,
                    content |-> contentRendered,
                    counted |-> FilterTable[treatment][titleRendered]
                                           [contentRendered]]
  /\ UNCHANGED <<coreVars, config, dashboard, blogStream, seoScore, calendar>>

InitFilter == Init /\ srcCount = 0

NextFilter ==
  \E treatment \in FilterTreatments :
    \E titleRendered \in FilterTitles :
      \E contentRendered \in FilterContents :
        FilterPost(treatment, titleRendered, contentRendered)

SpecFilter == InitFilter /\ [][NextFilter]_vars

\* the title and the content of the latest call as the matcher sees them
NormalTitle   == ToLowerCase(stripHtmlTags(filterCall.title))
NormalContent == ToLowerCase(stripHtmlTags(filterCall.content))

HasLocaleMarker ==
  Includes(NormalTitle, TurkeyWord) \/ Includes(NormalContent, TurkeyWord)

\* the base phrase of the treatment of the latest call and its words
BasePhrase == ToLowerCase(ReplaceFirst(filterCall.treatment, InTurkey, EmptyStr))
BaseWords  == Split(BasePhrase)

\* C22: a post whose normalized lower-cased title and content both lack
\* 'turkey' is not counted, for any treatment
C22_LocaleMarkerNecessary ==
  filterCall.counted => HasLocaleMarker

\* a post whose title holds every word of the treatment's phrase, without
\* the marker anywhere, and which is not counted
C22_Witness ==
  /\ filterCall.treatment = T_Hair
  /\ filterCall.title = Title3
  /\ ~HasLocaleMarker
  /\ \A w \in DOMAIN BaseWords : Includes(NormalTitle, BaseWords[w])
  /\ ~filterCall.counted

\* the title holds every word of more than 2 characters of the base phrase
\* (and there is one)
TitleHasSignificantWords ==
  /\ \E w \in DOMAIN BaseWords : Len(BaseWords[w]) > 2
  /\ \A w \in DOMAIN BaseWords :
       Len(BaseWords[w]) > 2 => Includes(NormalTitle, BaseWords[w])

\* C23: a post with the locale marker whose title holds every significant
\* word (length > 2) of the base phrase is counted; the shorter words of the
\* phrase are ignored
C23_TitleRule ==
  (filterCall.treatment # << >> /\ HasLocaleMarker /\ TitleHasSignificantWords)
    => filterCall.counted

\* the number of words of more than 2 characters of a keyword variant that
\* the content holds
SignificantWordsInContent(variant) ==
  Cardinality({w \in DOMAIN Split(variant) :
                 /\ Len(Split(variant)[w]) > 2
                 /\ Includes(NormalContent, Split(variant)[w])})

\* the variants of the treatment of the latest call
Variants ==
  LET kws == TreatmentKeywords(filterCall.treatment)
  IN  {kws[n] : n \in DOMAIN kws}

\* C24: for every treatment, a post with the locale marker is counted
\* whenever its content holds at least min(2, wordCount) of the significant
\* words of some keyword variant, whatever its title
C24_ContentRule ==
  ( /\ filterCall.treatment # << >>
    /\ HasLocaleMarker
    /\ \E v \in Variants :
         SignificantWordsInContent(v) >= Min(2, Len(Split(v))) )
    => filterCall.counted

\* C24, amended: the same for every treatment other than 'Weight Loss
\* Surgery in Turkey', a variant of a single word counting only when it is
\* longer than 3 characters
C24_ContentRuleAmended ==
  ( /\ filterCall.treatment # << >>
    /\ filterCall.treatment # WeightLossSurgery
    /\ HasLocaleMarker
    /\ \E v \in Variants :
         /\ SignificantWordsInContent(v) >= Min(2, Len(Split(v)))
         /\ Len(Split(v)) = 1 => Len(v) > 3 )
    => filterCall.counted

\* a post counted by its content alone: two of the four words of the phrase
\* in the content, none in the title
C24_Witness ==
  /\ filterCall.treatment = T_TipOfNose
  /\ HasLocaleMarker
  /\ \A w \in DOMAIN BaseWords : ~Includes(NormalTitle, BaseWords[w])
  /\ SignificantWordsInContent(BasePhrase) = 2
  /\ filterCall.counted

----------------------------------------------------------------------------
(* DashboardView.fetchData (src/unnamed/part_005), lines 95-157:           *)
(* publication trend, growth rate and the monthly chart                    *)

\* Math.round of the Number -x for a Number x >= 0: halves go up, towards
\* zero (and -0 is written 0)
JsRoundNegated(x) ==
  IF x = JsZero \/ x.pexp < 0 THEN 0
  ELSE 0 - ( NatOfBits(SubSeq(x.bits, 1, x.pexp))
             + (IF /\ x.bits[x.pexp + 1] = 1
                   /\ \E i \in (x.pexp + 2)..Len(x.bits) : x.bits[i] = 1
                  THEN 1 ELSE 0) )

\* variant: without the test of recentPosts
GrowthRate_Unguarded(recentPosts, olderPosts) ==
  IF olderPosts = 0
    THEN JsRound(JsMultiply(JsDivide(recentPosts, 1), 100))
    ELSE LET twice == 2 * recentPosts - olderPosts
         IN  IF twice >= 0
               THEN JsRound(JsMultiply(JsDivide(twice, olderPosts), 100))
               ELSE JsRoundNegated(JsMultiply(JsDivide(0 - twice, olderPosts), 100))

\* line 122: recentPosts > 0 ? Math.round(((recentPosts - olderPosts / 2) /
\* (olderPosts / 2 || 1)) * 100) : 0.  The halves are exact Numbers, so the
\* quotient is the Number nearest to (2 * recentPosts - olderPosts) /
\* olderPosts; with olderPosts = 0 the divisor is 1
GrowthRate(recentPosts, olderPosts) ==
  IF recentPosts > 0
    THEN IF olderPosts = 0
           THEN JsRound(JsMultiply(JsDivide(recentPosts, 1), 100))
           ELSE LET twice == 2 * recentPosts - olderPosts
                IN  IF twice >= 0
                      THEN JsRound(JsMultiply(JsDivide(twice, olderPosts), 100))
                      ELSE JsRoundNegated(
                             JsMultiply(JsDivide(0 - twice, olderPosts), 100))
    ELSE 0

\* the largest number of posts of one period
MaxPeriodPosts == 17

\* line 122 on the counts of lines 100-106
ComputeGrowthRate(recentPosts, olderPosts) ==
  /\ dashboard' = [dashboard EXCEPT !.recentPosts = recentPosts,
                                    !.olderPosts = olderPosts,
                                    !.growthRate = GrowthRate(recentPosts, olderPosts),
                                    !.computed = "growthRate"]
  /\ UNCHANGED <<coreVars, config, blogStream, seoScore, calendar, filterCall>>

InitGrowth == Init /\ srcCount = 0

NextGrowth ==
  \E recentPosts \in 0..MaxPeriodPosts :
    \E olderPosts \in 0..MaxPeriodPosts :
      ComputeGrowthRate(recentPosts, olderPosts)

SpecGrowth == InitGrowth /\ [][NextGrowth]_vars

\* round(100 * (recent - older/2) / (older/2 || 1)) in exact arithmetic,
\* halves going up as Math.round takes them
ExactGrowthRate(recent, older) ==
  IF older = 0 THEN 100 * recent
  ELSE (200 * (2 * recent - older) + older) \div (2 * older)

IsLeapYear(y) == (y % 4 = 0 /\ y % 100 # 0) \/ y % 400 = 0

DaysInMonth(y, m) ==
  IF m = 1 THEN (IF IsLeapYear(y) THEN 29 ELSE 28)
  ELSE IF m \in {3, 5, 8, 10} THEN 30 ELSE 31

\* days from 1 January 2023 to 1 January of y
RECURSIVE DaysBeforeYear(_)
DaysBeforeYear(y) ==
  IF y <= 2023 THEN 0
  ELSE DaysBeforeYear(y - 1) + (IF IsLeapYear(y - 1) THEN 366 ELSE 365)

\* days from 1 January of y to the first day of month m (0 is January)
RECURSIVE DaysBeforeMonth(_, _)
DaysBeforeMonth(y, m) ==
  IF m = 0 THEN 0 ELSE DaysBeforeMonth(y, m - 1) + DaysInMonth(y, m - 1)

\* new Date(year, monthIndex, day) at hour h of local time, as the hours
\* since 1 January 2023; a month index outside 0..11 carries into the year
NewDate(y, m, d, h) ==
  LET year  == y + (m \div 12)
      month == m % 12
  IN  (DaysBeforeYear(year) + DaysBeforeMonth(year, month) + (d - 1)) * 24 + h

\* new Date(post.date): the local time the string of the post gives
ParseDate(date) == NewDate(date.y, date.m, date.d, date.h)

\* toLocaleDateString('en-GB', { month: 'short', year: '2-digit' }) of the
\* first day of month index m of year y
MonthLabel(y, m) == [month |-> m % 12, year |-> (y + (m \div 12)) % 100]

\* lines 100-102: posts of the last 30 days
RecentPosts(today, postDates) ==
  Cardinality({p \in DOMAIN postDates :
                 ParseDate(postDates[p]) >= ParseDate(today) - 30 * 24})

\* lines 104-106: posts of the 60 days before
OlderPosts(today, postDates) ==
  Cardinality({p \in DOMAIN postDates :
                 /\ ParseDate(postDates[p]) >= ParseDate(today) - 90 * 24
                 /\ ParseDate(postDates[p]) < ParseDate(today) - 30 * 24})

\* variant: the first day of the next month belongs to the range
InMonthRange_Closed(postDate, monthDate, nextMonth) ==
  postDate >= monthDate /\ postDate <= nextMonth

\* line 151: postDate >= monthDate && postDate < nextMonth
InMonthRange(postDate, monthDate, nextMonth) ==
  postDate >= monthDate /\ postDate < nextMonth

\* lines 141-157: the loop runs i from 11 down to 0; its pass number k has
\* i = 12 - k
MonthlyPosts(currentDate, postDates) ==
  [k \in 1..12 |->
    LET i         == 12 - k
        monthDate == NewDate(currentDate.y, currentDate.m - i, 1, 0)
        nextMonth == NewDate(currentDate.y, currentDate.m - i + 1, 1, 0)
    IN  [month |-> MonthLabel(currentDate.y, currentDate.m - i),
         posts |-> Cardinality({p \in DOMAIN postDates :
                     InMonthRange(ParseDate(postDates[p]), monthDate, nextMonth)})]]

\* the largest number of posts of the blog
MaxDashPosts == 2

\* the clock when the analytics are computed
DashNows ==
  { [y |-> 2025, m |-> 2,  d |-> 15, h |-> 12],
    [y |-> 2025, m |-> 0,  d |-> 1,  h |-> 0],
    [y |-> 2024, m |-> 11, d |-> 31, h |-> 23] }

\* the dates of posts: the first hour of a month, 30 and 90 days before the
\* first clock, the two sides of the start of its 12 months, a leap day
DashPostDates ==
  { [y |-> 2025, m |-> 2,  d |-> 1,  h |-> 0],
    [y |-> 2025, m |-> 1,  d |-> 13, h |-> 12],
    [y |-> 2025, m |-> 1,  d |-> 13, h |-> 11],
    [y |-> 2024, m |-> 11, d |-> 15, h |-> 12],
    [y |-> 2024, m |-> 3,  d |-> 1,  h |-> 0],
    [y |-> 2024, m |-> 2,  d |-> 31, h |-> 23],
    [y |-> 2024, m |-> 1,  d |-> 29, h |-> 12] }

DashPostLists ==
  UNION {[1..n -> DashPostDates] : n \in 0..MaxDashPosts}

\* lines 35-41: the button is disabled while isLoading; the call starts
\* with none of its statistics computed
fetchData ==
  /\ dashboard.computed # "loading"
  /\ dashboard' = [now |-> [y |-> 0, m |-> 0, d |-> 1, h |-> 0],
                   postDates |-> << >>, recentPosts |-> 0, olderPosts |-> 0,
                   growthRate |-> 0, monthlyPosts |-> << >>,
                   computed |-> "loading"]
  /\ UNCHANGED <<coreVars, config, blogStream, seoScore, calendar, filterCall>>

\* lines 41-157: getBlogData is fulfilled with the posts and the statistics
\* of their dates are computed on the clock read at lines 96 and 142
GetBlogDataFulfilled(today, postDates) ==
  /\ dashboard.computed = "loading"
  /\ LET recentPosts == RecentPosts(today, postDates)
         olderPosts  == OlderPosts(today, postDates)
     IN  dashboard' = [now |-> today, postDates |-> postDates,
                       recentPosts |-> recentPosts, olderPosts |-> olderPosts,
                       growthRate |-> GrowthRate(recentPosts, olderPosts),
                       monthlyPosts |-> MonthlyPosts(today, postDates),
                       computed |-> "analytics"]
  /\ UNCHANGED <<coreVars, config, blogStream, seoScore, calendar, filterCall>>

InitDashboard == Init /\ srcCount = 0

NextDashboard ==
  \/ fetchData
  \/ \E today \in DashNows :
       \E postDates \in DashPostLists :
         GetBlogDataFulfilled(today, postDates)

SpecDashboard == InitDashboard /\ [][NextDashboard]_vars

\* the calendar month of a date, counted from year 0
MonthOf(date) == date.y * 12 + date.m

\* the posts of the latest computation whose date lies in calendar month mo
PostsOfMonth(mo) ==
  Cardinality({p \in DOMAIN dashboard.postDates :
                 MonthOf(dashboard.postDates[p]) = mo})

\* C26: monthlyPosts has exactly 12 buckets, one per calendar month in
\* chronological order ending with the current month; a post is counted in
\* the bucket of its calendar month and in no other, so every post of the 12
\* months is counted exactly once and no post twice
C26_TwelveMonthBuckets ==
  dashboard.computed = "analytics"
    => /\ Len(dashboard.monthlyPosts) = 12
       /\ \A k \in 1..12 :
            LET mo == MonthOf(dashboard.now) - (12 - k)
            IN  /\ dashboard.monthlyPosts[k].month
                     = [month |-> mo % 12, year |-> (mo \div 12) % 100]
                /\ dashboard.monthlyPosts[k].posts = PostsOfMonth(mo)

\* two posts of the 12 months, one in the first hour of the current month
\* and one in the first hour of the first month, and one bucket each
C26_Witness ==
  /\ dashboard.computed = "analytics"
  /\ dashboard.now = [y |-> 2025, m |-> 2, d |-> 15, h |-> 12]
  /\ dashboard.postDates = << [y |-> 2025, m |-> 2, d |-> 1, h |-> 0],
                              [y |-> 2024, m |-> 3, d |-> 1, h |-> 0] >>
  /\ dashboard.monthlyPosts[12].posts = 1
  /\ dashboard.monthlyPosts[1].posts = 1
  /\ \A k \in 2..11 : dashboard.monthlyPosts[k].posts = 0

----------------------------------------------------------------------------
(* generateBlogResponseStream (blogAIService.ts, lines 40-206) and its     *)
(* consumer, sendMessage of BlogAIChatProvider (useBlogAIChat.ts, lines    *)
(* 274-312)                                                                *)

\* the largest number of chunks of one response stream
MaxStreamChunks == 3

\* the texts of chunks
StreamTexts == {"p", "q"}

\* line 202: the sentence the generator yields when the backup model fails;
\* its source is written 0, which is no model
ErrorSentence == [from |-> 0, text |-> "error"]

\* lines 198-205: the catch of the loop body; the loop goes on to the
\* backup model, with whatever has been yielded already
BlogStreamCatch ==
  IF blogStream.model = BACKUP_MODEL
    THEN blogStream' = [blogStream EXCEPT
                          !.fullResponse = Append(@, ErrorSentence),
                          !.message = "final",
                          !.pc = "done"]
    ELSE blogStream' = [blogStream EXCEPT !.model = BACKUP_MODEL,
                                          !.yielded = 0,
                                          !.pc = "requesting"]

\* useBlogAIChat.ts lines 274-283: the generator is created and started on
\* the primary model (blogAIService.ts line 49)
BlogSendMessage ==
  /\ blogStream.pc \in {"idle", "done"}
  /\ blogStream' = [pc |-> "requesting", model |-> PRIMARY_MODEL, yielded |-> 0,
                    fullResponse |-> << >>, message |-> "placeholder"]
  /\ UNCHANGED <<coreVars, config, dashboard, seoScore, calendar, filterCall>>

\* line 186: generateContentStream is fulfilled
GenerateContentStreamFulfilled ==
  /\ blogStream.pc = "requesting"
  /\ blogStream' = [blogStream EXCEPT !.pc = "streaming"]
  /\ UNCHANGED <<coreVars, config, dashboard, seoScore, calendar, filterCall>>

\* line 186: generateContentStream is rejected
GenerateContentStreamRejected ==
  /\ blogStream.pc = "requesting"
  /\ BlogStreamCatch
  /\ UNCHANGED <<coreVars, config, dashboard, seoScore, calendar, filterCall>>

\* lines 194-196 and useBlogAIChat.ts lines 285-297: a chunk is yielded and
\* the consumer appends it to fullResponse and shows it
BlogStreamChunk(text) ==
  /\ blogStream.pc = "streaming"
  /\ blogStream.yielded < MaxStreamChunks
  /\ blogStream' = [blogStream EXCEPT
                      !.fullResponse =
                         Append(@, [from |-> blogStream.model, text |-> text]),
                      !.yielded = @ + 1,
                      !.message = "partial"]
  /\ UNCHANGED <<coreVars, config, dashboard, seoScore, calendar, filterCall>>

\* line 197 and useBlogAIChat.ts lines 299-311: the stream ends, the
\* generator returns, and the consumer saves the message or throws 'No
\* response received'
BlogStreamEnd ==
  /\ blogStream.pc = "streaming"
  /\ blogStream' = [blogStream EXCEPT
                      !.pc = "done",
                      !.message = IF blogStream.fullResponse = << >>
                                    THEN "connectionIssue" ELSE "final"]
  /\ UNCHANGED <<coreVars, config, dashboard, seoScore, calendar, filterCall>>

\* lines 194-198: the iteration of the response stream throws
BlogStreamFail ==
  /\ blogStream.pc = "streaming"
  /\ BlogStreamCatch
  /\ UNCHANGED <<coreVars, config, dashboard, seoScore, calendar, filterCall>>

InitBlogStream == Init /\ srcCount = 0

NextBlogStream ==
  \/ BlogSendMessage
  \/ GenerateContentStreamFulfilled
  \/ GenerateContentStreamRejected
  \/ \E text \in StreamTexts : BlogStreamChunk(text)
  \/ BlogStreamEnd
  \/ BlogStreamFail

SpecBlogStream == InitBlogStream /\ [][NextBlogStream]_vars

\* C27: all that one invocation yields comes from the response of a single
\* model; after a chunk of the primary model neither a chunk of the backup
\* model nor the error sentence is appended to the same output
C27_SingleModelOutput ==
  \A i, j \in DOMAIN blogStream.fullResponse :
    (i < j /\ blogStream.fullResponse[i].from = PRIMARY_MODEL)
      => blogStream.fullResponse[j].from = PRIMARY_MODEL

----------------------------------------------------------------------------
(* analyzeKeywordUsage: the result of the fallback paths (lines 1017-1082) *)

\* the suggestions of the result written for a treatment: those whose
\* content angle names it
SuggestionsFor(treatment) ==
  {s \in DOMAIN analysis.uk_keyword_suggestions :
     Includes(analysis.uk_keyword_suggestions[s].suggested_content_angle,
              treatment)}

\* C28: a result of the local fallback, by whichever failure path, has
\* exactly three suggestions for every treatment of treatment_gap_analysis,
\* and the statistics computed before the completion calls in its other
\* fields
C28_FallbackThreePerGap ==
  (apc = "done" /\ aiEnding = "fallback")
    => /\ \A g \in DOMAIN analysis.treatment_gap_analysis :
            Cardinality(SuggestionsFor(
              analysis.treatment_gap_analysis[g].treatment)) = 3
       /\ analysis.keyword_frequency_stats = keywordFreq
       /\ analysis.treatment_gap_analysis = treatmentGaps
       /\ analysis.content_gap_rate = contentGapRate
       /\ analysis.keyword_diversity_index = keywordDiversityIndex
       /\ analysis.total_posts_analyzed = Len(gapPosts)

----------------------------------------------------------------------------
(* performAdvancedSEOAnalysis (blogAIService.ts), lines 700-749            *)

\* the scores an analysis can return
SubScores == {0, 50, 77, 100}

\* lines 723-729: Math.round((coreWebVitals.overallScore +
\* semanticAnalysis.score + mobileOptimization.score + schemaMarkup.score +
\* 90) / 4)
OverallScore(coreWebVitals, semantic, mobile, schema) ==
  JsRound(JsDivide(coreWebVitals + semantic + mobile + schema + 90, 4))

\* lines 705-743: the five analyses are fulfilled and the result is returned
PerformAdvancedSEOAnalysis(coreWebVitals, semantic, mobile, schema) ==
  /\ seoScore' = [coreWebVitals |-> coreWebVitals, semantic |-> semantic,
                  mobile |-> mobile, schema |-> schema,
                  overallScore |->
                    OverallScore(coreWebVitals, semantic, mobile, schema),
                  outcome |-> "returned"]
  /\ UNCHANGED <<coreVars, config, dashboard, blogStream, calendar, filterCall>>

\* lines 744-747: one of the analyses is rejected and the call throws
PerformAdvancedSEOAnalysisFails ==
  /\ seoScore' = [coreWebVitals |-> 0, semantic |-> 0, mobile |-> 0,
                  schema |-> 0, overallScore |-> 0, outcome |-> "thrown"]
  /\ UNCHANGED <<coreVars, config, dashboard, blogStream, calendar, filterCall>>

InitSeoScore == Init /\ srcCount = 0

NextSeoScore ==
  \/ \E coreWebVitals \in SubScores, semantic \in SubScores,
        mobile \in SubScores, schema \in SubScores :
       PerformAdvancedSEOAnalysis(coreWebVitals, semantic, mobile, schema)
  \/ PerformAdvancedSEOAnalysisFails

SpecSeoScore == InitSeoScore /\ [][NextSeoScore]_vars

\* C29: the overallScore returned is an integer within 0..100 whenever the
\* four sub-scores combined are within 0..100
C29_OverallScoreInRange ==
  ( /\ seoScore.outcome = "returned"
    /\ {seoScore.coreWebVitals, seoScore.semantic, seoScore.mobile,
        seoScore.schema} \subseteq 0..100 )
    => seoScore.overallScore \in 0..100

----------------------------------------------------------------------------
(* BlogScheduleView (src/components/blogAI/BlogScheduleView.tsx): the      *)
(* table blog_schedules, the state scheduleItems and the two lists of the  *)
(* sidebar, keywords and keywordRecordIds.  A row is [id, keyword, status, *)
(* assigned]; ids are given in the order of insertion.  Every handler runs *)
(* to its end before the next one starts, and its requests succeed          *)

\* the largest number of rows ever inserted, and of entries of
\* scheduleItems beyond them
MaxRecords == 2

\* the keywords the user types
CalendarKeywords == {"hair", "Hair", "nose"}

\* String.prototype.toLowerCase on them
CalendarLower(k) == IF k = "Hair" THEN "hair" ELSE k

IsDraft(item) == item.status = "draft" /\ ~item.assigned

\* the rows of a set by id, latest first or earliest first
RECURSIVE RowsInOrder(_, _)
RowsInOrder(rows, latestFirst) ==
  IF rows = {} THEN << >>
  ELSE LET r == CHOOSE r \in rows :
                  \A o \in rows : IF latestFirst THEN o.id <= r.id ELSE r.id <= o.id
       IN  <<r>> \o RowsInOrder(rows \ {r}, latestFirst)

\* keywords.filter((_, i) => i !== index)
RemoveAt(s, index) == SubSeq(s, 1, index - 1) \o SubSeq(s, index + 1, Len(s))

\* Array.prototype.find with the test of lines 504-506 and 583-585
FindDraft(items, keyword) ==
  LET found == {i \in DOMAIN items : items[i].keyword = keyword /\ IsDraft(items[i])}
  IN  IF found = {} THEN << >>
      ELSE <<items[CHOOSE i \in found : \A o \in found : i <= o]>>

\* loadScheduleData, lines 407-449: the drafts, latest first, then the
\* scheduled items
LoadScheduleData ==
  /\ LET allData    == RowsInOrder({r \in calendar.rows : IsDraft(r)}, TRUE)
                         \o RowsInOrder({r \in calendar.rows : r.assigned}, FALSE)
         draftItems == SelectSeq(allData, IsDraft)
     IN  calendar' = [calendar EXCEPT
                        !.scheduleItems = allData,
                        !.keywords = [i \in DOMAIN draftItems |-> draftItems[i].keyword],
                        !.keywordRecordIds = [i \in DOMAIN draftItems |-> draftItems[i].id]]
  /\ UNCHANGED <<coreVars, config, dashboard, blogStream, seoScore, filterCall>>

\* handleAddKeyword, lines 456-488, for a keyword that does not exist yet
HandleAddKeyword(keyword) ==
  /\ calendar.inserted < MaxRecords
  /\ ~ ( \/ \E i \in DOMAIN calendar.keywords :
              CalendarLower(calendar.keywords[i]) = CalendarLower(keyword)
         \/ \E i \in DOMAIN calendar.scheduleItems :
              /\ CalendarLower(calendar.scheduleItems[i].keyword) = CalendarLower(keyword)
              /\ ~calendar.scheduleItems[i].assigned )
  /\ LET data == [id |-> calendar.inserted + 1, keyword |-> keyword,
                  status |-> "draft", assigned |-> FALSE]
     IN  calendar' = [calendar EXCEPT
                        !.rows = @ \cup {data},
                        !.inserted = @ + 1,
                        !.keywords = <<keyword>> \o @,
                        !.keywordRecordIds = <<data.id>> \o @]
  /\ UNCHANGED <<coreVars, config, dashboard, blogStream, seoScore, filterCall>>

\* handleRemoveKeyword, lines 490-524 (index counts from 1 here)
HandleRemoveKeyword(index) ==
  /\ index \in DOMAIN calendar.keywords
  /\ LET keyword     == calendar.keywords[index]
         draftRecord == FindDraft(calendar.scheduleItems, keyword)
         NotRecord(si) == si.id # draftRecord[1].id
     IN  IF draftRecord # << >>
           THEN calendar' = [calendar EXCEPT
                  !.rows = {r \in @ : r.id # draftRecord[1].id},
                  !.keywords = RemoveAt(@, index),
                  !.scheduleItems = SelectSeq(@, NotRecord)]
           ELSE calendar' = [calendar EXCEPT !.keywords = RemoveAt(@, index)]
  /\ UNCHANGED <<coreVars, config, dashboard, blogStream, seoScore, filterCall>>

\* handleRevertToDraft, lines 527-572, for a record of the table
HandleRevertToDraft(recordId) ==
  /\ \E r \in calendar.rows : r.id = recordId
  /\ LET row  == CHOOSE r \in calendar.rows : r.id = recordId
         data == [row EXCEPT !.status = "draft", !.assigned = FALSE]
     IN  calendar' = [calendar EXCEPT
           !.rows = (@ \ {row}) \cup {data},
           !.scheduleItems = [i \in DOMAIN @ |-> IF @[i].id = recordId THEN data ELSE @[i]],
           !.keywords = IF \E i \in DOMAIN @ :
                              CalendarLower(@[i]) = CalendarLower(data.keyword)
                          THEN @ ELSE <<data.keyword>> \o @,
           !.keywordRecordIds = IF \E i \in DOMAIN @ : @[i] = data.id
                                  THEN @ ELSE <<data.id>> \o @]
  /\ UNCHANGED <<coreVars, config, dashboard, blogStream, seoScore, filterCall>>

\* handleDropKeyword, lines 574-636, for a card of the sidebar
HandleDropKeyword(index) ==
  /\ index \in DOMAIN calendar.keywords
  /\ LET keyword       == calendar.keywords[index]
         existingDraft == FindDraft(calendar.scheduleItems, keyword)
         updatedItem   ==
           IF existingDraft # << >>
             THEN [existingDraft[1] EXCEPT !.status = "scheduled", !.assigned = TRUE]
             ELSE [id |-> calendar.inserted + 1, keyword |-> keyword,
                   status |-> "scheduled", assigned |-> TRUE]
         NotKeyword(k) == k # keyword
     IN  /\ existingDraft = << >> => calendar.inserted < MaxRecords
         /\ Len(calendar.scheduleItems) <= MaxRecords
         /\ calendar' = [calendar EXCEPT
              !.rows = {r \in @ : r.id # updatedItem.id} \cup {updatedItem},
              !.inserted = IF existingDraft # << >> THEN @ ELSE @ + 1,
              !.scheduleItems = Append(@, updatedItem),
              !.keywords = SelectSeq(@, NotKeyword)]
  /\ UNCHANGED <<coreVars, config, dashboard, blogStream, seoScore, filterCall>>

InitCalendar == Init /\ srcCount = 0

NextCalendar ==
  \/ LoadScheduleData
  \/ \E keyword \in CalendarKeywords : HandleAddKeyword(keyword)
  \/ \E index \in 1..MaxRecords : HandleRemoveKeyword(index)
  \/ \E recordId \in 1..MaxRecords : HandleRevertToDraft(recordId)
  \/ \E index \in 1..MaxRecords : HandleDropKeyword(index)

SpecCalendar == InitCalendar /\ [][NextCalendar]_vars

\* C30: keywords and keywordRecordIds have the same length, and
\* keywordRecordIds[i] is the id of the draft row whose keyword is
\* keywords[i]
C30_SidebarListsAligned ==
  /\ Len(calendar.keywords) = Len(calendar.keywordRecordIds)
  /\ \A i \in DOMAIN calendar.keywords :
       \E r \in calendar.rows :
         /\ r.id = calendar.keywordRecordIds[i]
         /\ r.keyword = calendar.keywords[i]
         /\ IsDraft(r)

====
